---- MODULE Spec2Model ----
(***************************************************************************)
(* A model of the worktree lifecycle manager of src/src/repo.rs with its   *)
(* RepoLock (src/src/lock.rs) and its backend gateway (src/src/git.rs).    *)
(*                                                                         *)
(* Strings are sequences of one-character strings, so that parsing         *)
(* (Path::components, str::strip_suffix, str::parse::<usize>) and          *)
(* formatting (format!) are computed character by character.  Paths of the *)
(* file system are sequences of path segments.  A usize is the sequence of *)
(* its decimal digit values, most significant first, so that the 64-bit    *)
(* range is kept exactly.                                                  *)
(***************************************************************************)
EXTENDS Integers, Sequences, FiniteSets, TLC

VARIABLES
    dirs,        \* the paths that are directories on disk
    files,       \* the paths that are regular files on disk
    registered,  \* the linked worktrees the backend has registered (paths)
    lockHolder,  \* the process holding the exclusive lock on worktree-tool.lock
    pc,          \* pc[p]: the position of process p in its invocation
    op,          \* op[p]: the subcommand of process p's current invocation
    arg,         \* arg[p]: its NAME argument (an Option<String>)
    dest,        \* dest[p]: the local `dest` (create/switch), a path
    todo,        \* todo[p]: what is left of worktree_paths() in clear's loop
    result,      \* result[p]: how the last invocation of p ended
    out,         \* out[p]: the lines p's invocation printed to stdout
    ops,         \* invocations started so far
    envs,        \* steps of the environment taken so far
    genLog,      \* the indices of the default names generated so far, in order
    locked,      \* the registered worktrees under `git worktree lock`
    repo,        \* repo[p]: the Repo that try_discover built for p's invocation
    tail,        \* tail[p]: whether a command was supplied (CommandSpec)
    cwd,         \* cwd[p]: the working directory of process p
    launches,    \* launches[p]: the children p's invocation spawned, in order
    origin,      \* origin[p]: the directory p's running invocation was started in
    prev,        \* prev[p]: the create that entered a worktree just before p's
                 \* running switch, or the clear that ended well just before
                 \* p's running clear, if there was one
    code,        \* code[p]: the exit code of p's last invocation, -1 before
    drv,         \* drv[p]: the locals of the retry driver p is in, or was last in
    home,        \* the user's HOME and the configuration file under it
    fnIn,        \* input of the pure-function specifications
    fnOut        \* result of the pure-function specifications

vars == <<dirs, files, registered, lockHolder, pc, op, arg, dest, todo, result,
          out, ops, envs, genLog, locked, repo, tail, cwd, launches, code, prev,
          origin, drv, home, fnIn, fnOut>>

---------------------------------------------------------------------------
(* Bounds of the model.                                                    *)

NumProcs == 2
MaxOps == 3
MaxEnv == 2
MaxLen == 3
MaxIndex == 1
MaxAttempts == 12
ClockMax == 6000

Procs == 1..NumProcs

---------------------------------------------------------------------------
(* Strings and Option values.                                              *)

None == [some |-> FALSE, val |-> <<>>]
Some(v) == [some |-> TRUE, val |-> v]

Last(s) == s[Len(s)]
Front(s) == SubSeq(s, 1, Len(s) - 1)

\* Path::starts_with / <[T]>::starts_with: componentwise (elementwise) prefix.
starts_with(s, prefix) ==
    /\ Len(prefix) <= Len(s)
    /\ SubSeq(s, 1, Len(prefix)) = prefix

\* str::strip_suffix
strip_suffix(s, suffix) ==
    IF /\ Len(suffix) <= Len(s)
       /\ SubSeq(s, Len(s) - Len(suffix) + 1, Len(s)) = suffix
    THEN Some(SubSeq(s, 1, Len(s) - Len(suffix)))
    ELSE None

\* The byte of each character the model uses (ASCII), for Ord on strings.
CharCode ==
    [c \in {"+", "-", ".", "/", "0", "1", "2", "3", "4", "5", "6", "7", "8",
            "9", "a", "b", "e", "f", "k", "o", "r", "t", "w", "x"} |->
        CASE c = "+" -> 43 [] c = "-" -> 45 [] c = "." -> 46 [] c = "/" -> 47
          [] c = "0" -> 48 [] c = "1" -> 49 [] c = "2" -> 50 [] c = "3" -> 51
          [] c = "4" -> 52 [] c = "5" -> 53 [] c = "6" -> 54 [] c = "7" -> 55
          [] c = "8" -> 56 [] c = "9" -> 57 [] c = "a" -> 97 [] c = "b" -> 98
          [] c = "e" -> 101 [] c = "f" -> 102 [] c = "k" -> 107
          [] c = "o" -> 111 [] c = "r" -> 114 [] c = "t" -> 116
          [] c = "w" -> 119 [] c = "x" -> 120]

IsDigit(c) == CharCode[c] >= 48 /\ CharCode[c] <= 57
DigitVal(c) == CharCode[c] - 48
DigitChar(d) == CHOOSE c \in DOMAIN CharCode : CharCode[c] = d + 48

---------------------------------------------------------------------------
(* usize: a canonical sequence of decimal digit values.                    *)

\* usize::MAX on a 64-bit target, 18446744073709551615
USIZE_MAX == <<1, 8, 4, 4, 6, 7, 4, 4, 0, 7, 3, 7, 0, 9, 5, 5, 1, 6, 1, 5>>

RECURSIVE StripZeros(_)
StripZeros(v) ==
    IF Len(v) > 1 /\ v[1] = 0 THEN StripZeros(Tail(v)) ELSE v

RECURSIVE LexLessNat(_, _)
LexLessNat(a, b) ==
    IF a = <<>> \/ b = <<>> THEN FALSE
    ELSE IF a[1] # b[1] THEN a[1] < b[1]
    ELSE LexLessNat(Tail(a), Tail(b))

\* a < b and a > b on usize values
UsizeLess(a, b) ==
    \/ Len(a) < Len(b)
    \/ Len(a) = Len(b) /\ LexLessNat(a, b)
UsizeGreater(a, b) == UsizeLess(b, a)

\* v + 1 on the unbounded naturals
RECURSIVE NatSucc(_)
NatSucc(v) ==
    IF v = <<>> THEN <<1>>
    ELSE IF Last(v) < 9 THEN Front(v) \o <<Last(v) + 1>>
    ELSE NatSucc(Front(v)) \o <<0>>

\* str::parse::<usize>: an optional '+', then one or more decimal digits, in range.
parse_usize(s) ==
    LET body == IF Len(s) > 0 /\ s[1] = "+" THEN Tail(s) ELSE s
        v == StripZeros([i \in 1..Len(body) |-> DigitVal(body[i])])
    IN  IF body = <<>> THEN None
        ELSE IF \E i \in 1..Len(body) : ~IsDigit(body[i]) THEN None
        ELSE IF UsizeGreater(v, USIZE_MAX) THEN None
        ELSE Some(v)

\* Display for usize
format_usize(v) == [i \in 1..Len(v) |-> DigitChar(v[i])]

---------------------------------------------------------------------------
(* Path::components and the name validator.                                *)

\* the segments of s between '/' characters, empty ones included
RECURSIVE Split(_, _)
Split(s, cur) ==
    IF s = <<>> THEN <<cur>>
    ELSE IF s[1] = "/" THEN <<cur>> \o Split(Tail(s), <<>>)
    ELSE Split(Tail(s), Append(cur, s[1]))

RootDir == [kind |-> "RootDir", seg |-> <<>>]
CurDir == [kind |-> "CurDir", seg |-> <<>>]
ParentDir == [kind |-> "ParentDir", seg |-> <<"..">>]
Normal(seg) == [kind |-> "Normal", seg |-> seg]

\* The components of the segments from the i-th on: empty segments and "."
\* are skipped, except a "." that starts a relative path.
RECURSIVE SegComponents(_, _, _)
SegComponents(segs, i, has_root) ==
    IF i > Len(segs) THEN <<>>
    ELSE LET seg == segs[i]
             rest == SegComponents(segs, i + 1, has_root)
         IN  IF seg = <<>> THEN rest
             ELSE IF seg = <<".">> THEN
                 (IF i = 1 /\ ~has_root THEN <<CurDir>> \o rest ELSE rest)
             ELSE IF seg = <<".", ".">> THEN <<ParentDir>> \o rest
             ELSE <<Normal(seg)>> \o rest

\* Path::new(s).components() on Unix
components(s) ==
    LET has_root == Len(s) > 0 /\ s[1] = "/"
    IN  (IF has_root THEN <<RootDir>> ELSE <<>>)
            \o SegComponents(Split(s, <<>>), 1, has_root)

\* validate_worktree_name: TRUE for Ok(()), FALSE for the "invalid worktree name" error
validate_worktree_name(name) ==
    LET comps == components(name)
    IN  IF comps = <<>> THEN FALSE
        ELSE IF Len(comps) > 1 THEN FALSE
        ELSE comps[1].kind = "Normal"

---------------------------------------------------------------------------
(* The file system: paths are sequences of segments.                       *)

Root == << <<"repo">> >>
GitCommonDir == Root \o << <<".git">> >>
WorktreesDir == Root \o << <<".worktrees">> >>
LockPath == GitCommonDir \o << <<"worktree-tool.lock">> >>
GitWorktreesDir == GitCommonDir \o << <<"worktrees">> >>
RefsWorktreeDir == GitCommonDir \o << <<"refs">>, <<"worktree">> >>
LogsWorktreeDir == GitCommonDir \o << <<"logs">>, <<"refs">>, <<"worktree">> >>
ForeignPath == Root \o << <<"foreign">> >>
\* a plain subdirectory of the main worktree, and a directory outside every
\* repository
SubDir == Root \o << <<"sub">> >>
OutsideDir == << <<"tmp">> >>

\* The administrative directory of a registration, $GIT_DIR/worktrees/<id>:
\* an entry of GitWorktreesDir that the backend owns.
AdminDir(worktree) == GitWorktreesDir \o <<Last(worktree)>>

\* Path::exists, Path::is_dir
exists(path) == path \in dirs \cup files \cup {AdminDir(w) : w \in registered}
is_dir(path) == path \in dirs \cup {AdminDir(w) : w \in registered}

\* fs::read_dir: the entries of a directory
read_dir(path) ==
    {e \in dirs \cup files \cup {AdminDir(w) : w \in registered} :
        Len(e) = Len(path) + 1 /\ starts_with(e, path)}

\* the path and every ancestor of it below the repository root
Ancestors(path) == {SubSeq(path, 1, n) : n \in (Len(Root) + 1)..Len(path)}

\* everything at or under a path
Subtree(path, set) == {e \in set : starts_with(e, path)}

\* Path::join for a relative name: the name's segments are pushed
join(base, name) ==
    LET comps == components(name)
    IN  base \o [i \in 1..Len(comps) |-> comps[i].seg]

---------------------------------------------------------------------------
(* The default name generator.                                             *)

SuffixWt == <<"-", "w", "t">>
SuffixWorktree == <<"-", "w", "o", "r", "k", "t", "r", "e", "e">>

\* worktree_index: Option<usize>
worktree_index(name) ==
    LET wt == strip_suffix(name, SuffixWt)
        prefix == IF wt.some THEN wt ELSE strip_suffix(name, SuffixWorktree)
    IN  IF prefix.some THEN parse_usize(prefix.val) ELSE None

\* the loop of next_worktree_name over the entries read_dir yields (in any order)
RECURSIVE ScanHighest(_, _)
ScanHighest(entries, highest) ==
    IF entries = {} THEN highest
    ELSE LET entry == CHOOSE e \in entries : TRUE
             index == worktree_index(Last(entry))
             next == IF ~(entry \in dirs) THEN highest
                     ELSE IF ~index.some THEN highest
                     ELSE IF highest.some /\ UsizeGreater(highest.val, index.val)
                          THEN highest
                     ELSE index
         IN  ScanHighest(entries \ {entry}, next)

\* next_worktree_name.  `value + 1` on a usize overflows at usize::MAX: the
\* process panics when the build has overflow checks, the sum wraps to 0
\* otherwise.
\* a count-based generator, the variant of next_worktree_name that C9 excludes
RECURSIVE NatOf(_)
NatOf(n) == IF n = 0 THEN <<0>> ELSE NatSucc(NatOf(n - 1))
next_worktree_name_count(worktree_root, overflow_checks) ==
    LET indexed == {e \in read_dir(worktree_root) :
                        e \in dirs /\ worktree_index(Last(e)).some}
        next == NatOf(Cardinality(indexed))
    IN  [panic |-> FALSE,
         index |-> next,
         name |-> format_usize(next) \o SuffixWt]

next_worktree_name(worktree_root, overflow_checks) ==
    LET highest == IF exists(worktree_root)
                   THEN ScanHighest(read_dir(worktree_root), None)
                   ELSE None
        overflow == highest.some /\ highest.val = USIZE_MAX
        next == IF ~highest.some THEN <<0>>
                ELSE IF overflow THEN <<0>>
                ELSE NatSucc(highest.val)
    IN  [panic |-> overflow /\ overflow_checks,
         index |-> next,
         name |-> format_usize(next) \o SuffixWt]

---------------------------------------------------------------------------
(* The state after `git init` and a first commit, with no invocation       *)
(* running: the metadata directory exists, nothing else of the model does. *)

NoPath == <<>>

\* no Repo: try_discover has not run, or returned None
NoRepo == [root |-> NoPath, git_common_dir |-> NoPath, worktrees_dir |-> NoPath]

InitFs ==
    /\ dirs = {Root, GitCommonDir, SubDir, OutsideDir}
    /\ files = {}
    /\ registered = {}
    /\ locked = {}

---------------------------------------------------------------------------
(* The retry drivers git_worktree_add_with_retry and                       *)
(* git_worktree_remove_with_retry.  Times are in milliseconds.             *)

InitialDelay == 30
MaxDelay == 500
Deadline == 3000

Min(a, b) == IF a < b THEN a ELSE b

\* the counters of the model stop at their bounds
Clock(t) == Min(t, ClockMax)
Count(n) == Min(n, MaxAttempts)

\* the diagnostic text of a failed backend call, as the set of the phrases
\* that occur in it, letter case aside
LockPhrases ==
    {"index.lock", "another git process seems to be running",
     "could not write new index file", "unable to create", "lock", ".git"}
NoStderr == {}
AlreadyExists == {"already exists"}
LockedWorkingTree == {"cannot remove a locked working tree", "lock"}
Diagnostics ==
    { {"unable to create", "index.lock", "lock", ".git",
       "another git process seems to be running"},
      {"could not write new index file"},
      {"unable to create", "lock", ".git"},
      {"unable to create", ".git"},
      AlreadyExists,
      LockedWorkingTree,
      NoStderr }

\* how long one backend call may take
CallMillis == {0, 1500}

\* is_git_lock_error
is_git_lock_error(stderr) ==
    \/ "index.lock" \in stderr
    \/ "another git process seems to be running" \in stderr
    \/ "could not write new index file" \in stderr
    \/ ("unable to create" \in stderr /\ "lock" \in stderr /\ ".git" \in stderr)

\* the locals of a driver: backend calls made, `delay`, start.elapsed() as
\* last read, the last sleep, the stderr of the last failed call, the path
\* the driver works on, and whether it has returned Ok
Driver(attempts, delay, elapsed, slept, stderr, target, ok) ==
    [attempts |-> attempts, delay |-> delay, elapsed |-> elapsed,
     slept |-> slept, stderr |-> stderr, target |-> target, ok |-> ok]
FreshDriver == Driver(0, InitialDelay, 0, 0, NoStderr, <<>>, FALSE)

\* the locals at a backend call: those of a new driver when the last one
\* has returned
Entered(d) == IF d.ok THEN FreshDriver ELSE d

\* a driver that retries every failure, the variant of WillRetry that C24
\* excludes
WillRetry_any_failure(stderr, elapsed) == elapsed < Deadline

\* a driver that never gives up on contention, the variant of WillRetry
\* that C25 excludes
WillRetry_without_deadline(stderr, elapsed) == is_git_lock_error(stderr)

\* lines 246 and 278: is_git_lock_error(&stderr) && start.elapsed() < deadline
WillRetry(stderr, elapsed) == is_git_lock_error(stderr) /\ elapsed < Deadline

\* a delay that doubles without limit, the variant of next_delay that C23
\* excludes
next_delay_uncapped(delay) == delay * 2

\* lines 248 and 280: (delay * 2).min(Duration::from_millis(500))
next_delay(delay) == Min(delay * 2, MaxDelay)

\* the locals after a backend call that took `took` and failed with `stderr`:
\* either thread::sleep(delay) and the doubled delay, or the bail
Failed(d, target, stderr, took) ==
    LET elapsed == Clock(Entered(d).elapsed + took)
        attempts == Count(Entered(d).attempts + 1)
        delay == Entered(d).delay
    IN  IF WillRetry(stderr, elapsed)
        THEN Driver(attempts, next_delay(delay), Clock(elapsed + delay), delay,
                    stderr, target, FALSE)
        ELSE Driver(attempts, delay, elapsed, 0, stderr, target, FALSE)

\* lines 241-243 and 273-275: the backend call succeeds and the driver
\* returns Ok
Succeeded(d, target) ==
    [Entered(d) EXCEPT !.attempts = Count(@ + 1), !.slept = 0,
                       !.target = target, !.ok = TRUE]

\* process p is inside a driver that has failed at least once
InDriver(p) ==
    pc[p] \in {"c_add", "x_loop"} /\ drv[p].attempts > 0 /\ ~drv[p].ok

\* HOME: whether the variable is set, what ~/.worktree is ("absent", "dir"
\* or "file"), and the content of ~/.worktree/config.toml ("absent" when
\* there is none)
Home(env, dir, file) == [env |-> env, dir |-> dir, file |-> file]
NoConfig == Home(TRUE, "absent", "absent")

\* what is remembered of an invocation that has ended
Ended(command, name, path, res) ==
    [op |-> command, arg |-> name, dest |-> path, result |-> res]
NoPrev == Ended("none", None, NoPath, "none")

InitProcs ==
    /\ lockHolder = 0
    /\ pc = [p \in Procs |-> "idle"]
    /\ op = [p \in Procs |-> "none"]
    /\ arg = [p \in Procs |-> None]
    /\ dest = [p \in Procs |-> NoPath]
    /\ todo = [p \in Procs |-> {}]
    /\ result = [p \in Procs |-> "none"]
    /\ out = [p \in Procs |-> <<>>]
    /\ ops = 0
    /\ envs = 0
    /\ genLog = <<>>
    /\ repo = [p \in Procs |-> NoRepo]
    /\ tail = [p \in Procs |-> FALSE]
    /\ cwd = [p \in Procs |-> NoPath]
    /\ launches = [p \in Procs |-> <<>>]
    /\ code = [p \in Procs |-> -1]
    /\ prev = [p \in Procs |-> NoPrev]
    /\ origin = [p \in Procs |-> NoPath]
    /\ drv = [p \in Procs |-> FreshDriver]

procVars == <<lockHolder, pc, op, arg, dest, todo, result, out, ops, envs, genLog,
              repo, tail, cwd, launches, code, prev, origin, drv>>
fsVars == <<dirs, files, registered, locked>>

---------------------------------------------------------------------------
(* The name validator on its own: every string of at most MaxLen           *)
(* characters over NameAlphabet.                                           *)

NameAlphabet == {"a", "0", "-", "/", "."}
Strings(alphabet, n) == UNION {[1..k -> alphabet] : k \in 0..n}

InitValidate ==
    /\ InitFs
    /\ InitProcs
    /\ fnIn \in Strings(NameAlphabet, MaxLen)
    /\ fnOut = "unset"
    /\ home = NoConfig

ApplyValidate ==
    /\ fnOut = "unset"
    /\ fnOut' = IF validate_worktree_name(fnIn) THEN "Ok" ELSE "Err"
    /\ UNCHANGED <<fsVars, procVars, fnIn, home>>

SpecValidate == InitValidate /\ [][ApplyValidate]_vars

---------------------------------------------------------------------------
(* The default name generator on its own: every content of the managed     *)
(* directory drawn from ScanNames, each name absent, a directory or a file.*)

Digit(d) == <<DigitChar(d)>>
IndexedName(v, suffix) == format_usize(v) \o suffix
Str_usize_max_wt == IndexedName(USIZE_MAX, SuffixWt)
Str_2pow64_wt == IndexedName(NatSucc(USIZE_MAX), SuffixWt)

ScanNames ==
    {IndexedName(<<i>>, SuffixWt) : i \in 0..MaxIndex}
        \cup {IndexedName(<<2>>, SuffixWorktree), <<"0", "1">> \o SuffixWt,
              <<"+", "3">> \o SuffixWt, <<"x">> \o SuffixWt,
              Str_usize_max_wt, Str_2pow64_wt}

InitNextName ==
    /\ InitProcs
    /\ registered = {}
    /\ locked = {}
    /\ \E D \in SUBSET ScanNames : \E F \in SUBSET (ScanNames \ D) :
        \E present \in BOOLEAN :
          /\ (D \cup F # {}) => present
          /\ dirs = {Root, GitCommonDir}
                \cup (IF present THEN {WorktreesDir} ELSE {})
                \cup {WorktreesDir \o <<n>> : n \in D}
          /\ files = {WorktreesDir \o <<n>> : n \in F}
    /\ fnIn = <<>>
    /\ fnOut = "unset"
    /\ home = NoConfig

ApplyNextName ==
    /\ fnOut = "unset"
    /\ \E overflow_checks \in BOOLEAN :
         LET r == next_worktree_name(WorktreesDir, overflow_checks)
         IN  fnOut' = IF r.panic THEN "panic" ELSE r.name
    /\ UNCHANGED <<fsVars, procVars, fnIn, home>>

SpecNextName == InitNextName /\ [][ApplyNextName]_vars

---------------------------------------------------------------------------
(* The backend (git), as the calls of repo.rs and git.rs use it.           *)

\* `git worktree add --detach <dest>` exits 0: the path is free and unregistered
\* an add that takes a path whatever is there
git_worktree_add_forced(d) == TRUE

git_worktree_add_ok(d) == ~exists(d) /\ d \notin registered

\* `git worktree remove --force <worktree>` exits 0: the path is registered
\* and not locked ("cannot remove a locked working tree" needs -f -f)
git_worktree_remove_ok(w) == w \in registered /\ w \notin locked

\* git::worktree_paths: the main worktree and every registered one
worktree_paths == {Root} \cup registered

\* what `git worktree prune` keeps: the registrations whose directory
\* exists, and the locked ones
prune_kept == {w \in registered : w \in dirs \/ w \in locked}

\* `git rev-parse --git-dir`, which in a linked worktree names the
\* administrative directory of that worktree; the variant of
\* git_common_dir_of that C19 excludes
RECURSIVE git_dir_of(_)
git_dir_of(dir) ==
    IF dir = <<>> THEN None
    ELSE IF (dir \o << <<".git">> >>) \in dirs
         THEN Some(dir \o << <<".git">> >>)
    ELSE IF dir \in registered /\ dir \in dirs
         THEN Some(AdminDir(dir))
    ELSE git_dir_of(Front(dir))

\* `git rev-parse --path-format=absolute --git-common-dir` run in dir: git
\* climbs to the nearest directory that holds `.git`.  In the main worktree
\* `.git` is the common directory itself; in a linked worktree it is a file
\* naming the administrative directory <common>/worktrees/<id>, whose
\* `commondir` is `../..`.
RECURSIVE git_common_dir_of(_)
git_common_dir_of(dir) ==
    IF dir = <<>> THEN None
    ELSE IF (dir \o << <<".git">> >>) \in dirs
         THEN Some(dir \o << <<".git">> >>)
    ELSE IF dir \in registered /\ dir \in dirs
         THEN Some(Front(Front(AdminDir(dir))))
    ELSE git_common_dir_of(Front(dir))

\* Repo::try_discover: root is the parent of the common directory
try_discover(start) ==
    LET git_common_dir == IF start \in dirs THEN git_common_dir_of(start)
                          ELSE None
    IN  IF ~git_common_dir.some THEN None
        ELSE IF Len(git_common_dir.val) < 2 THEN None
        ELSE LET root == Front(git_common_dir.val)
             IN  Some([root |-> root,
                       git_common_dir |-> git_common_dir.val,
                       worktrees_dir |-> root \o << <<".worktrees">> >>])

\* the paths clear and create derive from the Repo of process p
worktrees_dir(p) == repo[p].worktrees_dir
lock_path(p) == repo[p].git_common_dir \o << <<"worktree-tool.lock">> >>
bookkeeping_dir(p, sub) == repo[p].git_common_dir \o sub

\* Path::display: the segments joined by the separator
RECURSIVE display(_)
display(path) ==
    IF path = <<>> THEN <<>>
    ELSE <<"/">> \o path[1] \o display(Tail(path))

\* remove_dir_if_empty: the directory it removes, if any
\* a cleanup that removes nothing, the variant of remove_dir_if_empty that C4 excludes
remove_dir_if_empty_never(path) == {}

\* a cleanup that removes the directory whatever it holds
remove_dir_if_empty_always(path) == IF is_dir(path) THEN {path} ELSE {}

remove_dir_if_empty(path) ==
    IF ~is_dir(path) THEN {}
    ELSE IF read_dir(path) = {} THEN {path}
    ELSE {}

---------------------------------------------------------------------------
(* One invocation of the tool by process p.                                *)

\* the exit code of the process for each way run() returns: 0 for Ok, 1
\* for an error reported by main, 101 for a panic
ExitCode(res) ==
    IF res \in {"ok", "not_in_repo"} THEN 0
    ELSE IF res = "panic" THEN 101
    ELSE 1

\* the invocation returns; the process is gone, and its working directory
\* with it
Exit(p, res, status) ==
    /\ pc' = [pc EXCEPT ![p] = "idle"]
    /\ result' = [result EXCEPT ![p] = res]
    /\ code' = [code EXCEPT ![p] = status]
    /\ cwd' = [cwd EXCEPT ![p] = NoPath]
    /\ prev' = [prev EXCEPT ![p] = NoPrev]
    /\ origin' = [origin EXCEPT ![p] = NoPath]

Finish(p, res) ==
    /\ Exit(p, res, ExitCode(res))
    /\ UNCHANGED launches

Goto(p, label) ==
    /\ pc' = [pc EXCEPT ![p] = label]
    /\ UNCHANGED <<result, code, cwd, launches, prev, origin>>

\* the reset of the per-invocation state when a process starts
Invoke(p, command, name, with_tail) ==
    /\ pc[p] = "idle"
    /\ ops < MaxOps
    /\ ops' = ops + 1
    /\ op' = [op EXCEPT ![p] = command]
    /\ arg' = [arg EXCEPT ![p] = name]
    /\ tail' = [tail EXCEPT ![p] = with_tail]
    /\ dest' = [dest EXCEPT ![p] = NoPath]
    /\ todo' = [todo EXCEPT ![p] = {}]
    /\ launches' = [launches EXCEPT ![p] = <<>>]
    /\ drv' = [drv EXCEPT ![p] = FreshDriver]
    /\ UNCHANGED <<fsVars, lockHolder, envs, genLog, fnIn, fnOut, home>>

\* an invocation from a working directory that exists
Fresh(p, command, name, start, with_tail) ==
    /\ start \in dirs
    /\ Invoke(p, command, name, with_tail)

\* app::run and run_tool inside a repository: try_discover returns the Repo
\* and the command's method is called
Begin(p, command, name, start, with_tail, label) ==
    /\ try_discover(start).some
    /\ Fresh(p, command, name, start, with_tail)
    /\ repo' = [repo EXCEPT ![p] = try_discover(start).val]
    /\ cwd' = [cwd EXCEPT ![p] = start]
    /\ origin' = [origin EXCEPT ![p] = start]
    /\ out' = [out EXCEPT ![p] = <<>>]
    /\ pc' = [pc EXCEPT ![p] = label]
    /\ result' = [result EXCEPT ![p] = "running"]
    /\ code' = [code EXCEPT ![p] = -1]
    /\ prev' = [prev EXCEPT ![p] =
            IF \/ command = "switch" /\ op[p] = "create"
                    /\ result[p] \in {"ok", "child_failed"}
               \/ command = "clear" /\ op[p] = "clear" /\ result[p] = "ok"
            THEN Ended(op[p], arg[p], dest[p], result[p])
            ELSE NoPrev]

\* app::run, Commands::Create, and run_tool, ToolCommand::Create
StartCreate(p, name, start, with_tail) ==
    Begin(p, "create", name, start, with_tail, "c_mkdir")
\* app::run, Commands::Switch, and run_tool, ToolCommand::Switch
StartSwitch(p, name, start, with_tail) ==
    Begin(p, "switch", Some(name), start, with_tail, "s_validate")
\* app::run, Commands::List
StartList(p, start) == Begin(p, "list", None, start, FALSE, "l_exists")
\* app::run, Commands::Clear
StartClear(p, start) == Begin(p, "clear", None, start, FALSE, "x_chdir")

NotInRepoMessage == <<"not in a git repo, doing nothing">>
LegacyNotInRepoMessage ==
    <<"You need to run this command inside a git repository.">>

\* app::not_in_repo: try_discover returned None; the message is printed and
\* run returns Ok
NotInRepo(p, command, name, start, with_tail) ==
    /\ ~try_discover(start).some
    /\ Fresh(p, command, name, start, with_tail)
    /\ repo' = [repo EXCEPT ![p] = NoRepo]
    /\ out' = [out EXCEPT ![p] = <<NotInRepoMessage>>]
    /\ Exit(p, "not_in_repo", ExitCode("not_in_repo"))

\* main.rs, run: the entry point that src/src/main.rs keeps for `list` and
\* `clear` prints its message and calls process::exit(1)
LegacyNotInRepo(p, command, start) ==
    /\ command \in {"list", "clear"}
    /\ ~try_discover(start).some
    /\ Fresh(p, command, None, start, FALSE)
    /\ repo' = [repo EXCEPT ![p] = NoRepo]
    /\ out' = [out EXCEPT ![p] = <<LegacyNotInRepoMessage>>]
    /\ Exit(p, "not_in_repo_exit", 1)

\* RepoLock::acquire: open (create) the lock file, then flock(LOCK_EX), which
\* blocks while another process holds the lock.
\* a lock taken without waiting for its holder, the variant of acquire that C2 excludes
acquire_without_waiting(p) ==
    /\ lockHolder' = p
    /\ files' = files \cup {lock_path(p)}

\* a guard that outlives its scope
drop_lock_never(p) == UNCHANGED lockHolder

\* the end of the scope of `_lock` (repo.rs 75 and 134), reached by falling
\* out of the block or by a `?` inside it: the File is dropped and with it
\* the lock
drop_lock(p) == lockHolder' = IF lockHolder = p THEN 0 ELSE lockHolder

acquire(p) ==
    /\ lockHolder = 0
    /\ lockHolder' = p
    /\ files' = files \cup {lock_path(p)}

\* the calls of acquire that can fail: OpenOptions::open (lines 16-21) and
\* lock_exclusive (lines 22-23)
AcquireCalls == {"open", "lock_exclusive"}

\* an acquire whose error is dropped, the operation going on without the lock
AcquireFails_unsynchronized(p, call) ==
    /\ pc[p] \in {"c_lock", "x_lock"}
    /\ files' = files \cup (IF call = "lock_exclusive" THEN {lock_path(p)} ELSE {})
    /\ Goto(p, IF pc[p] = "c_lock" THEN "c_add" ELSE "x_list")
    /\ UNCHANGED <<dirs, registered, locked, lockHolder, op, arg, repo, tail, dest,
                   todo, out, ops, envs, genLog, fnIn, fnOut, home, drv>>

\* RepoLock::acquire returns Err: `open` has failed and made no file, or
\* lock_exclusive has failed on the file that `open` made; the `?` of
\* repo.rs 73 and 112 ends create and clear with that error
AcquireFails(p, call) ==
    /\ pc[p] \in {"c_lock", "x_lock"}
    /\ files' = files \cup (IF call = "lock_exclusive" THEN {lock_path(p)} ELSE {})
    /\ Finish(p, "err_lock")
    /\ UNCHANGED <<dirs, registered, locked, lockHolder, op, arg, repo, tail, dest,
                   todo, out, ops, envs, genLog, fnIn, fnOut, home, drv>>

\* create_worktree, line 52: fs::create_dir_all(&self.worktrees_dir)
CreateMkdir(p) ==
    /\ pc[p] = "c_mkdir"
    /\ dirs' = dirs \cup Ancestors(worktrees_dir(p))
    /\ Goto(p, "c_resolve")
    /\ UNCHANGED <<files, registered, locked, lockHolder, op, arg, repo, tail, dest, todo, out, ops,
                   envs, genLog, fnIn, fnOut, home, drv>>

\* create_worktree, lines 53-60: the name, validated or generated, and dest
CreateResolve(p) ==
    /\ pc[p] = "c_resolve"
    /\ IF arg[p].some
       THEN /\ IF validate_worktree_name(arg[p].val)
               THEN /\ dest' = [dest EXCEPT ![p] =
                                    join(worktrees_dir(p), arg[p].val)]
                    /\ Goto(p, "c_check")
               ELSE /\ Finish(p, "err_invalid_name")
                    /\ UNCHANGED dest
            /\ UNCHANGED genLog
       ELSE \E overflow_checks \in BOOLEAN :
              LET r == next_worktree_name(worktrees_dir(p), overflow_checks)
              IN  IF r.panic
                  THEN /\ Finish(p, "panic")
                       /\ UNCHANGED <<dest, genLog>>
                  ELSE /\ dest' = [dest EXCEPT ![p] =
                                        join(worktrees_dir(p), r.name)]
                       /\ genLog' = Append(genLog, r.index)
                       /\ Goto(p, "c_check")
    /\ UNCHANGED <<fsVars, lockHolder, op, arg, repo, tail, todo, out, ops, envs, fnIn, fnOut, home, drv>>

\* create_worktree, lines 61-70: the existence check
\* a create without the existence check, the variant of CreateCheck that C5 excludes
CreateCheck_unchecked(p) ==
    /\ pc[p] = "c_check"
    /\ Goto(p, "c_lock")
    /\ UNCHANGED <<fsVars, lockHolder, op, arg, repo, tail, dest, todo, out, ops, envs,
                   genLog, fnIn, fnOut, home, drv>>

CreateCheck(p) ==
    /\ pc[p] = "c_check"
    /\ IF exists(dest[p])
       THEN IF is_dir(dest[p])
            THEN Finish(p, "err_already_exists")
            ELSE Finish(p, "err_not_a_directory")
       ELSE Goto(p, "c_lock")
    /\ UNCHANGED <<fsVars, lockHolder, op, arg, repo, tail, dest, todo, out, ops, envs,
                   genLog, fnIn, fnOut, home, drv>>

\* create_worktree, line 73
\* an acquire with a timeout: the waiter gives up while the lock is held
CreateLock_times_out(p) ==
    /\ pc[p] = "c_lock"
    /\ IF lockHolder = 0
       THEN /\ lockHolder' = p
            /\ files' = files \cup {lock_path(p)}
            /\ Goto(p, "c_add")
       ELSE /\ Finish(p, "err_lock")
            /\ UNCHANGED <<lockHolder, files>>
    /\ UNCHANGED <<dirs, registered, locked, op, arg, repo, tail, dest, todo, out, ops, envs, genLog,
                   fnIn, fnOut, home, drv>>

CreateLock(p) ==
    /\ pc[p] = "c_lock"
    /\ acquire(p)
    /\ Goto(p, "c_add")
    /\ UNCHANGED <<dirs, registered, locked, op, arg, repo, tail, dest, todo, out, ops, envs, genLog,
                   fnIn, fnOut, home, drv>>

\* a retry that tells the user about it, the variant of AddFails that C26
\* excludes
AddFails_visible(p, stderr, took) ==
    /\ pc[p] = "c_add"
    /\ drv' = [drv EXCEPT ![p] = Failed(drv[p], dest[p], stderr, took)]
    /\ IF WillRetry(stderr, Clock(Entered(drv[p]).elapsed + took))
       THEN /\ pc' = [pc EXCEPT ![p] = "c_add"]
            /\ out' = [out EXCEPT ![p] = Append(out[p], <<"retrying">>)]
            /\ UNCHANGED <<result, code, cwd, launches, prev, origin, lockHolder>>
       ELSE /\ Finish(p, "err_backend")
            /\ drop_lock(p)
            /\ UNCHANGED out
    /\ UNCHANGED <<fsVars, op, arg, repo, tail, dest, todo, ops, envs, genLog,
                   fnIn, fnOut, home>>

\* git_worktree_add_with_retry, lines 233-256: a call of `git worktree add`
\* fails with `stderr` for a reason outside the repository's state; the
\* driver sleeps and tries again, or bails and create drops the guard
AddFails(p, stderr, took) ==
    /\ pc[p] = "c_add"
    /\ drv' = [drv EXCEPT ![p] = Failed(drv[p], dest[p], stderr, took)]
    /\ IF WillRetry(stderr, Clock(Entered(drv[p]).elapsed + took))
       THEN /\ Goto(p, "c_add")
            /\ UNCHANGED lockHolder
       ELSE /\ Finish(p, "err_backend")
            /\ drop_lock(p)
    /\ UNCHANGED <<fsVars, op, arg, repo, tail, dest, todo, out, ops, envs, genLog,
                   fnIn, fnOut, home>>

\* create_worktree, lines 74-75: git_worktree_add_with_retry, then the guard
\* is dropped, on success and on error alike
\* the guard bound in the scope of the whole function, not of a block
CreateAdd_unscoped(p) ==
    /\ pc[p] = "c_add"
    /\ IF git_worktree_add_ok(dest[p])
       THEN /\ dirs' = dirs \cup Ancestors(dest[p]) \cup {GitWorktreesDir}
            /\ registered' = registered \cup {dest[p]}
            /\ drv' = [drv EXCEPT ![p] = Succeeded(drv[p], dest[p])]
            /\ Goto(p, "enter")
            /\ UNCHANGED lockHolder
       ELSE /\ Finish(p, "err_backend")
            /\ drv' = [drv EXCEPT ![p] = Failed(drv[p], dest[p], AlreadyExists, 0)]
            /\ drop_lock(p)
            /\ UNCHANGED <<dirs, registered>>
    /\ UNCHANGED <<files, locked, op, arg, repo, tail, dest, todo, out, ops, envs, genLog, fnIn, fnOut, home>>

CreateAdd(p) ==
    /\ pc[p] = "c_add"
    /\ IF git_worktree_add_ok(dest[p])
       THEN /\ dirs' = dirs \cup Ancestors(dest[p]) \cup {GitWorktreesDir}
            /\ registered' = registered \cup {dest[p]}
            /\ drv' = [drv EXCEPT ![p] = Succeeded(drv[p], dest[p])]
            /\ Goto(p, "enter")
       ELSE /\ Finish(p, "err_backend")
            /\ drv' = [drv EXCEPT ![p] = Failed(drv[p], dest[p], AlreadyExists, 0)]
            /\ UNCHANGED <<dirs, registered>>
    /\ drop_lock(p)
    /\ UNCHANGED <<files, locked, op, arg, repo, tail, dest, todo, out, ops, envs, genLog, fnIn, fnOut, home>>

\* a switch that resolves the name against the current directory, the
\* variant of SwitchValidate that C12 excludes
SwitchValidate_from_cwd(p) ==
    /\ pc[p] = "s_validate"
    /\ IF validate_worktree_name(arg[p].val)
       THEN /\ dest' = [dest EXCEPT ![p] =
                    join(cwd[p] \o << <<".worktrees">> >>, arg[p].val)]
            /\ Goto(p, "s_check")
       ELSE /\ Finish(p, "err_invalid_name")
            /\ UNCHANGED dest
    /\ UNCHANGED <<fsVars, lockHolder, op, arg, repo, tail, todo, out, ops, envs, genLog,
                   fnIn, fnOut, home, drv>>

\* switch_worktree, lines 81-82
SwitchValidate(p) ==
    /\ pc[p] = "s_validate"
    /\ IF validate_worktree_name(arg[p].val)
       THEN /\ dest' = [dest EXCEPT ![p] = join(worktrees_dir(p), arg[p].val)]
            /\ Goto(p, "s_check")
       ELSE /\ Finish(p, "err_invalid_name")
            /\ UNCHANGED dest
    /\ UNCHANGED <<fsVars, lockHolder, op, arg, repo, tail, todo, out, ops, envs, genLog,
                   fnIn, fnOut, home, drv>>

\* a check that takes any existing entry for a worktree, the variant of
\* SwitchCheck that C11 excludes
SwitchCheck_exists(p) ==
    /\ pc[p] = "s_check"
    /\ IF exists(dest[p])
       THEN Goto(p, "enter")
       ELSE Finish(p, "err_does_not_exist")
    /\ UNCHANGED <<fsVars, lockHolder, op, arg, repo, tail, dest, todo, out, ops, envs,
                   genLog, fnIn, fnOut, home, drv>>

\* switch_worktree, lines 83-87
\* a switch that takes its turn behind the holder of the repository lock
SwitchCheck_behind_lock(p) ==
    /\ pc[p] = "s_check"
    /\ lockHolder = 0
    /\ IF is_dir(dest[p])
       THEN Goto(p, "enter")
       ELSE Finish(p, "err_does_not_exist")
    /\ UNCHANGED <<fsVars, lockHolder, op, arg, repo, tail, dest, todo, out, ops, envs,
                   genLog, fnIn, fnOut, home, drv>>

SwitchCheck(p) ==
    /\ pc[p] = "s_check"
    /\ IF is_dir(dest[p])
       THEN Goto(p, "enter")
       ELSE Finish(p, "err_does_not_exist")
    /\ UNCHANGED <<fsVars, lockHolder, op, arg, repo, tail, dest, todo, out, ops, envs,
                   genLog, fnIn, fnOut, home, drv>>

\* the child enter_worktree spawns: the supplied command if there is one,
\* the interactive shell otherwise, with `dir` as its working directory
\* ExitStatus::code() of a child: Some(n), or nothing when a signal ended it
NoCode == [some |-> FALSE, val |-> 0]
Launch(kind, dir) == [kind |-> kind, dir |-> dir, done |-> FALSE, status |-> NoCode]

\* the last child of p has ended with `status`
Ends(p, status) ==
    launches' = [launches EXCEPT ![p][Len(launches[p])] =
                    [@ EXCEPT !.done = TRUE, !.status = status]]

\* an enter_worktree that opens the shell after the command as well, the
\* variant of Enter that C13 excludes
Enter_then_shell(p) ==
    /\ pc[p] = "enter"
    /\ IF is_dir(dest[p])
       THEN /\ cwd' = [cwd EXCEPT ![p] = dest[p]]
            /\ out' = [out EXCEPT ![p] = Append(out[p], display(dest[p]))]
            /\ launches' = [launches EXCEPT ![p] =
                    IF tail[p]
                    THEN launches[p] \o <<Launch("command", dest[p]),
                                          Launch("shell", dest[p])>>
                    ELSE Append(launches[p], Launch("shell", dest[p]))]
            /\ pc' = [pc EXCEPT ![p] = "child"]
            /\ UNCHANGED <<result, code, prev, origin>>
       ELSE /\ Finish(p, "err_io")
            /\ UNCHANGED out
    /\ UNCHANGED <<fsVars, lockHolder, op, arg, repo, tail, dest, todo, ops, envs,
                   genLog, fnIn, fnOut, home, drv>>

\* enter_worktree, lines 141-153, and run_shell, lines 172-177:
\* set_current_dir(dest), which fails when dest is no directory (any more),
\* the path printed, the child spawned in dest
Enter(p) ==
    /\ pc[p] = "enter"
    /\ IF is_dir(dest[p])
       THEN /\ cwd' = [cwd EXCEPT ![p] = dest[p]]
            /\ out' = [out EXCEPT ![p] = Append(out[p], display(dest[p]))]
            /\ launches' = [launches EXCEPT ![p] = Append(launches[p],
                    Launch(IF tail[p] THEN "command" ELSE "shell", dest[p]))]
            /\ pc' = [pc EXCEPT ![p] = "child"]
            /\ UNCHANGED <<result, code, prev, origin>>
       ELSE /\ Finish(p, "err_io")
            /\ UNCHANGED out
    /\ UNCHANGED <<fsVars, lockHolder, op, arg, repo, tail, dest, todo, ops, envs,
                   genLog, fnIn, fnOut, home, drv>>

\* enter_worktree, line 155, run_shell, line 182, clear, line 137: the child
\* exits with status 0 and the method returns Ok
Child(p) ==
    /\ pc[p] = "child"
    /\ Exit(p, "ok", ExitCode("ok"))
    /\ Ends(p, Some(0))
    /\ UNCHANGED <<fsVars, lockHolder, op, arg, repo, tail, dest, todo, out, ops,
                   envs, genLog, fnIn, fnOut, home, drv>>

\* what a child that does not succeed ends with: an exit code, or a signal
ChildExitCode == {42}
ChildStatus == {Some(n) : n \in ChildExitCode} \cup {NoCode}

\* status.code().unwrap_or(1)
\* a child without an exit code taken for a child that ended well
unwrap_or_0(status) == IF status.some THEN status.val ELSE 0

unwrap_or_1(status) == IF status.some THEN status.val ELSE 1

\* enter_worktree, lines 149-151, and run_shell, lines 179-181: the child
\* does not succeed and the process exits with its code
ChildFails(p, status) ==
    /\ pc[p] = "child"
    /\ Exit(p, "child_failed", unwrap_or_1(status))
    /\ Ends(p, status)
    /\ UNCHANGED <<fsVars, lockHolder, op, arg, repo, tail, dest, todo, out, ops,
                   envs, genLog, fnIn, fnOut, home, drv>>

---------------------------------------------------------------------------
(* list                                                                    *)

\* Ord for str: bytewise lexicographic
RECURSIVE StrLess(_, _)
StrLess(a, b) ==
    IF b = <<>> THEN FALSE
    ELSE IF a = <<>> THEN TRUE
    ELSE IF a[1] # b[1] THEN CharCode[a[1]] < CharCode[b[1]]
    ELSE StrLess(Tail(a), Tail(b))

\* Ord for Path: component by component
RECURSIVE PathLess(_, _)
PathLess(a, b) ==
    IF b = <<>> THEN FALSE
    ELSE IF a = <<>> THEN TRUE
    ELSE IF a[1] # b[1] THEN StrLess(a[1], b[1])
    ELSE PathLess(Tail(a), Tail(b))

\* entries.sort()
RECURSIVE sort(_)
sort(entries) ==
    IF entries = {} THEN <<>>
    ELSE LET least == CHOOSE e \in entries :
                        \A other \in entries \ {e} : PathLess(e, other)
         IN  <<least>> \o sort(entries \ {least})

\* list, lines 94-104: the directories among the entries, sorted, one name a line
\* a listing that keeps the non-directories, the variant of list_lines that C10 excludes
list_lines_unfiltered(root) ==
    LET entries == sort(read_dir(root))
    IN  [i \in 1..Len(entries) |-> Last(entries[i])]

list_lines(root) ==
    LET entries == sort({e \in read_dir(root) : is_dir(e)})
    IN  [i \in 1..Len(entries) |-> Last(entries[i])]

\* list, lines 91-93
ListExists(p) ==
    /\ pc[p] = "l_exists"
    /\ IF ~exists(worktrees_dir(p))
       THEN Finish(p, "ok")
       ELSE Goto(p, "l_read")
    /\ UNCHANGED <<fsVars, lockHolder, op, arg, repo, tail, dest, todo, out, ops, envs,
                   genLog, fnIn, fnOut, home, drv>>

\* list, lines 94-105; fs::read_dir fails when the directory is gone by now
ListRead(p) ==
    /\ pc[p] = "l_read"
    /\ IF is_dir(worktrees_dir(p))
       THEN /\ out' = [out EXCEPT ![p] = list_lines(worktrees_dir(p))]
            /\ Finish(p, "ok")
       ELSE /\ Finish(p, "err_io")
            /\ UNCHANGED out
    /\ UNCHANGED <<fsVars, lockHolder, op, arg, repo, tail, dest, todo, ops, envs, genLog,
                   fnIn, fnOut, home, drv>>

---------------------------------------------------------------------------
(* clear                                                                   *)

\* a clear that stays where it was started, the variant of ClearChdir that
\* C18 excludes
ClearChdir_stay(p) ==
    /\ pc[p] = "x_chdir"
    /\ Goto(p, "x_lock")
    /\ UNCHANGED <<fsVars, lockHolder, op, arg, repo, tail, dest, todo, out, ops,
                   envs, genLog, fnIn, fnOut, home, drv>>

\* clear, line 109: env::set_current_dir(&self.root)
ClearChdir(p) ==
    /\ pc[p] = "x_chdir"
    /\ cwd' = [cwd EXCEPT ![p] = repo[p].root]
    /\ pc' = [pc EXCEPT ![p] = "x_lock"]
    /\ UNCHANGED <<result, code, launches, prev, origin>>
    /\ UNCHANGED <<fsVars, lockHolder, op, arg, repo, tail, dest, todo, out, ops,
                   envs, genLog, fnIn, fnOut, home, drv>>

\* clear, line 112
ClearLock(p) ==
    /\ pc[p] = "x_lock"
    /\ acquire(p)
    /\ Goto(p, "x_list")
    /\ UNCHANGED <<dirs, registered, locked, op, arg, repo, tail, dest, todo, out,
                   ops, envs, genLog, fnIn, fnOut, home, drv>>

\* clear, line 114: git::worktree_paths(&self.root)
ClearList(p) ==
    /\ pc[p] = "x_list"
    /\ todo' = [todo EXCEPT ![p] = worktree_paths]
    /\ Goto(p, "x_loop")
    /\ UNCHANGED <<fsVars, lockHolder, op, arg, repo, tail, dest, out, ops, envs,
                   genLog, fnIn, fnOut, home, drv>>

\* a clear that lists only after it has deleted the managed directory: the
\* failure of the listing then comes too late, the variant of ClearListFails
\* that C39 excludes
ClearListFails_after_removal(p) ==
    /\ pc[p] = "x_list"
    /\ Finish(p, "err_backend")
    /\ drop_lock(p)
    /\ dirs' = dirs \ Subtree(worktrees_dir(p), dirs)
    /\ files' = files \ Subtree(worktrees_dir(p), files)
    /\ UNCHANGED <<registered, locked, op, arg, repo, tail, dest, todo, out, ops, envs,
                   genLog, fnIn, fnOut, home, drv>>

\* clear, line 114: `git worktree list` fails and `?` leaves the block
ClearListFails(p) ==
    /\ pc[p] = "x_list"
    /\ Finish(p, "err_backend")
    /\ drop_lock(p)
    /\ UNCHANGED <<fsVars, op, arg, repo, tail, dest, todo, out, ops, envs,
                   genLog, fnIn, fnOut, home, drv>>

\* whether clear's loop removes a listed worktree: line 115
\* a filter that takes every linked worktree, the variant of is_managed that C3 excludes
is_managed_any_linked(p, worktree) == worktree # Root

is_managed(p, worktree) == starts_with(worktree, worktrees_dir(p))

\* a removal that only drops the registration, the variant of ClearLoop that
\* C16 excludes
ClearLoop_unregister(p) ==
    /\ pc[p] = "x_loop"
    /\ todo[p] # {}
    /\ \E worktree \in todo[p] :
         /\ registered' = IF is_managed(p, worktree)
                          THEN registered \ {worktree} ELSE registered
         /\ todo' = [todo EXCEPT ![p] = todo[p] \ {worktree}]
    /\ Goto(p, "x_loop")
    /\ UNCHANGED <<dirs, files, locked, lockHolder, op, arg, repo, tail, dest,
                   out, ops, envs, genLog, fnIn, fnOut, home, drv>>

\* git_worktree_remove_with_retry, lines 265-292: a call of `git worktree
\* remove --force` for a managed worktree fails with `stderr` for a reason
\* outside the repository's state; the driver sleeps and tries again, or
\* bails and clear returns the error, dropping the guard
RemoveFails(p, worktree, stderr, took) ==
    /\ pc[p] = "x_loop"
    /\ worktree \in todo[p]
    /\ is_managed(p, worktree)
    /\ InDriver(p) => worktree = drv[p].target
    /\ drv' = [drv EXCEPT ![p] = Failed(drv[p], worktree, stderr, took)]
    /\ IF WillRetry(stderr, Clock(Entered(drv[p]).elapsed + took))
       THEN /\ Goto(p, "x_loop")
            /\ UNCHANGED lockHolder
       ELSE /\ Finish(p, "err_backend")
            /\ drop_lock(p)
    /\ UNCHANGED <<fsVars, op, arg, repo, tail, dest, todo, out, ops, envs, genLog,
                   fnIn, fnOut, home>>

\* clear, lines 114-118: one iteration of the loop; a failed removal returns
\* the error and drops the guard
ClearLoop(p) ==
    /\ pc[p] = "x_loop"
    /\ todo[p] # {}
    /\ \E worktree \in todo[p] :
         /\ InDriver(p) => worktree = drv[p].target
         /\ IF is_managed(p, worktree)
            THEN IF git_worktree_remove_ok(worktree)
                 THEN /\ dirs' = (dirs \ Subtree(worktree, dirs))
                                   \ (IF registered \ {worktree} = {}
                                      THEN {GitWorktreesDir} ELSE {})
                      /\ files' = files \ Subtree(worktree, files)
                      /\ registered' = registered \ {worktree}
                      /\ todo' = [todo EXCEPT ![p] = todo[p] \ {worktree}]
                      /\ drv' = [drv EXCEPT ![p] = Succeeded(drv[p], worktree)]
                      /\ Goto(p, "x_loop")
                      /\ UNCHANGED <<locked, lockHolder>>
                 ELSE /\ Finish(p, "err_backend")
                      /\ drv' = [drv EXCEPT ![p] =
                                    Failed(drv[p], worktree, LockedWorkingTree, 0)]
                      /\ drop_lock(p)
                      /\ UNCHANGED <<fsVars, todo>>
            ELSE /\ todo' = [todo EXCEPT ![p] = todo[p] \ {worktree}]
                 /\ Goto(p, "x_loop")
                 /\ UNCHANGED <<fsVars, lockHolder, drv>>
    /\ UNCHANGED <<op, arg, repo, tail, dest, out, ops, envs, genLog, fnIn, fnOut, home>>

\* clear, lines 120-122: fs::remove_dir_all(&self.worktrees_dir) if it exists
\* a clear that leaves the managed directory to the backend's removals
ClearRemoveDirAll_skipped(p) ==
    /\ pc[p] = "x_loop"
    /\ todo[p] = {}
    /\ drv' = [drv EXCEPT ![p] = FreshDriver]
    /\ Goto(p, "x_prune")
    /\ UNCHANGED <<fsVars, lockHolder, op, arg, repo, tail, dest, todo,
                   out, ops, envs, genLog, fnIn, fnOut, home>>

ClearRemoveDirAll(p) ==
    /\ pc[p] = "x_loop"
    /\ todo[p] = {}
    /\ IF exists(worktrees_dir(p))
       THEN /\ dirs' = dirs \ Subtree(worktrees_dir(p), dirs)
            /\ files' = files \ Subtree(worktrees_dir(p), files)
       ELSE UNCHANGED <<dirs, files>>
    /\ drv' = [drv EXCEPT ![p] = FreshDriver]
    /\ Goto(p, "x_prune")
    /\ UNCHANGED <<registered, locked, lockHolder, op, arg, repo, tail, dest, todo,
                   out, ops, envs, genLog, fnIn, fnOut, home>>

\* clear, lines 124-129: `git worktree prune`, its status ignored
\* clear, lines 120-122: fs::remove_dir_all fails and `?` leaves the block
ClearRemoveDirAllFails(p) ==
    /\ pc[p] = "x_loop"
    /\ todo[p] = {}
    /\ exists(worktrees_dir(p))
    /\ Finish(p, "err_io")
    /\ drop_lock(p)
    /\ UNCHANGED <<fsVars, op, arg, repo, tail, dest, todo, out, ops, envs,
                   genLog, fnIn, fnOut, home, drv>>

ClearPrune(p) ==
    /\ pc[p] = "x_prune"
    /\ registered' = prune_kept
    /\ dirs' = dirs \ (IF prune_kept = {} THEN {GitWorktreesDir} ELSE {})
    /\ Goto(p, "x_cleanup")
    /\ UNCHANGED <<files, locked, lockHolder, op, arg, repo, tail, dest, todo, out,
                   ops, envs, genLog, fnIn, fnOut, home, drv>>

\* how `git worktree prune` can fail: a non-zero exit status, or an Err of
\* Command::status() when git cannot be spawned
PruneFailures == {"exit_nonzero", "not_spawned"}

\* a prune whose failure is propagated with `?`
ClearPruneFails_aborts(p, failure) ==
    /\ pc[p] = "x_prune"
    /\ Finish(p, "err_backend")
    /\ drop_lock(p)
    /\ UNCHANGED <<fsVars, op, arg, repo, tail, dest, todo, out, ops, envs,
                   genLog, fnIn, fnOut, home, drv>>

\* clear, lines 124-129: `.status().ok()` drops the exit status and the
\* error alike; nothing was pruned
ClearPruneFails(p, failure) ==
    /\ pc[p] = "x_prune"
    /\ Goto(p, "x_cleanup")
    /\ UNCHANGED <<fsVars, lockHolder, op, arg, repo, tail, dest, todo, out, ops,
                   envs, genLog, fnIn, fnOut, home, drv>>

\* clear, lines 131-136: the three remove_dir_if_empty calls, the guard
\* dropped, and run_shell(&self.root) spawning the shell at the root
ClearCleanup(p) ==
    /\ pc[p] = "x_cleanup"
    /\ dirs' = dirs \ (remove_dir_if_empty(bookkeeping_dir(p, << <<"worktrees">> >>))
                        \cup remove_dir_if_empty(
                                bookkeeping_dir(p, << <<"refs">>, <<"worktree">> >>))
                        \cup remove_dir_if_empty(
                                bookkeeping_dir(p, << <<"logs">>, <<"refs">>,
                                                      <<"worktree">> >>)))
    /\ drop_lock(p)
    /\ launches' = [launches EXCEPT ![p] =
                        Append(launches[p], Launch("shell", repo[p].root))]
    /\ pc' = [pc EXCEPT ![p] = "child"]
    /\ UNCHANGED <<result, code, cwd, prev, origin>>
    /\ UNCHANGED <<files, registered, locked, op, arg, repo, tail, dest, todo, out,
                   ops, envs, genLog, fnIn, fnOut, home, drv>>

---------------------------------------------------------------------------
(* The environment: what the user does to the repository without the tool. *)

Str_a == <<"a">>
Str_b == <<"b">>
Str_dotdot == <<".", ".">>

\* `git worktree add --detach foreign` at the root, as in
\* clear_keeps_foreign_worktrees
EnvForeignAdd ==
    /\ envs < MaxEnv
    /\ git_worktree_add_ok(ForeignPath)
    /\ dirs' = dirs \cup Ancestors(ForeignPath) \cup {GitWorktreesDir}
    /\ registered' = registered \cup {ForeignPath}
    /\ envs' = envs + 1
    /\ UNCHANGED <<files, locked, lockHolder, pc, op, arg, repo, tail, dest, todo,
                   result, out, ops, genLog, cwd, launches, code, prev, origin, fnIn, fnOut, home, drv>>

\* `rm -rf` of a worktree's directory, behind the backend's back
EnvRemoveDir(worktree) ==
    /\ envs < MaxEnv
    /\ worktree \in registered
    /\ worktree \in dirs
    /\ dirs' = dirs \ Subtree(worktree, dirs)
    /\ files' = files \ Subtree(worktree, files)
    /\ envs' = envs + 1
    /\ UNCHANGED <<registered, locked, lockHolder, pc, op, arg, repo, tail, dest,
                   todo, result, out, ops, genLog, cwd, launches, code, prev, origin, fnIn,
                   fnOut, home, drv>>

\* `git worktree lock <worktree>`
EnvLock(worktree) ==
    /\ envs < MaxEnv
    /\ worktree \in registered
    /\ worktree \notin locked
    /\ locked' = locked \cup {worktree}
    /\ envs' = envs + 1
    /\ UNCHANGED <<dirs, files, registered, lockHolder, pc, op, arg, repo, tail,
                   dest, todo, result, out, ops, genLog, cwd, launches, code,
                   prev, origin, fnIn, fnOut, home, drv>>

\* a regular file written into the managed directory, as in
\* create_errors_when_target_is_a_file
EnvWriteFile(name) ==
    /\ envs < MaxEnv
    /\ ~exists(WorktreesDir \o <<name>>)
    /\ dirs' = dirs \cup Ancestors(WorktreesDir)
    /\ files' = files \cup {WorktreesDir \o <<name>>}
    /\ envs' = envs + 1
    /\ UNCHANGED <<registered, locked, lockHolder, pc, op, arg, repo, tail, dest,
                   todo, result, out, ops, genLog, cwd, launches, code, prev, origin, fnIn,
                   fnOut, home, drv>>

---------------------------------------------------------------------------
(* Spec: NumProcs processes invoke the tool concurrently on one repository.*)

CreateArgs == {None, Some(Str_a)}
SwitchArgs == {Str_a}

Steps(p) ==
    \/ CreateMkdir(p)
    \/ CreateResolve(p)
    \/ CreateCheck(p)
    \/ CreateLock(p)
    \/ CreateAdd(p)
    \/ SwitchValidate(p)
    \/ SwitchCheck(p)
    \/ Enter(p)
    \/ Child(p)
    \/ ListExists(p)
    \/ ListRead(p)
    \/ ClearChdir(p)
    \/ ClearLock(p)
    \/ ClearList(p)
    \/ ClearLoop(p)
    \/ ClearRemoveDirAll(p)
    \/ ClearPrune(p)
    \/ ClearCleanup(p)

Init ==
    /\ InitFs
    /\ InitProcs
    /\ fnIn = <<>>
    /\ fnOut = "unset"
    /\ home = NoConfig

Next ==
    \E p \in Procs :
        \/ \E name \in CreateArgs : StartCreate(p, name, Root, FALSE)
        \/ \E name \in SwitchArgs : StartSwitch(p, name, Root, FALSE)
        \/ StartList(p, Root)
        \/ StartClear(p, Root)
        \/ Steps(p)

Spec == Init /\ [][Next]_vars

\* the steps of create and of clear from the call of acquire to the end of
\* the block that holds the guard
LockStep(p) ==
    \/ CreateLock(p)
    \/ CreateAdd(p)
    \/ ClearLock(p)
    \/ ClearList(p)
    \/ ClearLoop(p)
    \/ ClearRemoveDirAll(p)
    \/ ClearPrune(p)
    \/ ClearCleanup(p)

\* every holder goes on to the end of its locked phase, and a waiter whose
\* lock_exclusive can return does return
LockLiveSpec == Spec /\ \A p \in Procs : WF_vars(LockStep(p))

\* the steps of create
CreateSteps(p) ==
    \/ CreateMkdir(p)
    \/ CreateResolve(p)
    \/ CreateCheck(p)
    \/ CreateLock(p)
    \/ CreateAdd(p)
    \/ Enter(p)
    \/ Child(p)

\* the names the racing creates are given
RaceArgs == {Some(Str_a), Some(Str_b)}

\* CreateRaceSpec: the processes run `create NAME` and nothing else, their
\* shells ending well or not
CreateRaceNext ==
    \E p \in Procs :
        \/ \E name \in RaceArgs : StartCreate(p, name, Root, FALSE)
        \/ CreateSteps(p)
        \/ \E status \in ChildStatus : ChildFails(p, status)

CreateRaceSpec == Init /\ [][CreateRaceNext]_vars

\* the steps of switch and of list
ReaderStep(p) ==
    \/ SwitchValidate(p)
    \/ SwitchCheck(p)
    \/ Enter(p)
    \/ ListExists(p)
    \/ ListRead(p)

\* process 1 is scheduled whenever it runs a switch or a list; the other
\* process may stop anywhere, the locked phase included
ReadersLiveSpec == Spec /\ WF_vars(ReaderStep(1))

---------------------------------------------------------------------------
(* SeqSpec: one user runs one invocation after another, and changes the    *)
(* repository by hand between them.  The bookkeeping directories           *)
(* refs/worktree and logs/refs/worktree start absent, empty (what          *)
(* `git update-ref -d` leaves behind) or holding a ref of the main         *)
(* worktree.                                                               *)

SeqCreateArgs == {None, Some(Str_a), Some(Str_b), Some(Str_dotdot),
                  Some(Str_usize_max_wt)}
SeqSwitchArgs == {Str_a, Str_dotdot}
FileNames == {Str_a, IndexedName(<<1>>, SuffixWt)}
RefName == <<"foo">>

InitSeq ==
    /\ InitProcs
    /\ registered = {}
    /\ locked = {}
    /\ \E book \in {"absent", "empty", "used"} :
        /\ dirs = {Root, GitCommonDir, SubDir, OutsideDir}
                    \cup (IF book = "absent" THEN {}
                          ELSE {RefsWorktreeDir, LogsWorktreeDir})
        /\ files = IF book = "used"
                   THEN {RefsWorktreeDir \o <<RefName>>,
                         LogsWorktreeDir \o <<RefName>>}
                   ELSE {}
    /\ fnIn = <<>>
    /\ fnOut = "unset"
    /\ home = NoConfig

SeqNext ==
    \/ \E name \in SeqCreateArgs : StartCreate(1, name, Root, FALSE)
    \/ \E name \in SeqSwitchArgs : StartSwitch(1, name, Root, FALSE)
    \/ StartList(1, Root)
    \/ StartClear(1, Root)
    \/ Steps(1)
    \/ pc[1] = "idle" /\ EnvForeignAdd
    \/ pc[1] = "idle" /\ \E w \in registered : EnvRemoveDir(w)
    \/ pc[1] = "idle" /\ \E name \in FileNames : EnvWriteFile(name)
    \/ \E failure \in PruneFailures : ClearPruneFails(1, failure)

SeqSpec == InitSeq /\ [][SeqNext]_vars

---------------------------------------------------------------------------
(* CliSpec: one user runs one invocation after another from any place: the *)
(* root, a subdirectory of it, a linked worktree, or a directory outside   *)
(* the repository; with or without a command; the child may fail; and a    *)
(* worktree may be locked by hand.                                         *)

Str_0_wt == IndexedName(<<0>>, SuffixWt)
CliCreateArgs == {None, Some(Str_a)}
CliSwitchArgs == {Str_a, Str_0_wt}
StartDirs == {Root, SubDir, OutsideDir} \cup registered

\* the working directory of a shell whose worktree was removed under it
DeletedDirs == {join(WorktreesDir, Str_a), join(WorktreesDir, Str_0_wt)}
                    \ (dirs \cup files)

\* app::run started in a directory that no longer exists: git cannot read
\* the working directory, git::stdout returns Err, `.ok()?` makes
\* try_discover None and run returns not_in_repo()
NotInRepoDeleted(p, command, name, start) ==
    /\ start \in DeletedDirs
    /\ ~try_discover(start).some
    /\ Invoke(p, command, name, FALSE)
    /\ repo' = [repo EXCEPT ![p] = NoRepo]
    /\ out' = [out EXCEPT ![p] = <<NotInRepoMessage>>]
    /\ pc' = [pc EXCEPT ![p] = "idle"]
    /\ result' = [result EXCEPT ![p] = "not_in_repo"]
    /\ code' = [code EXCEPT ![p] = ExitCode("not_in_repo")]
    /\ cwd' = [cwd EXCEPT ![p] = NoPath]
    /\ prev' = [prev EXCEPT ![p] = NoPrev]
    /\ origin' = [origin EXCEPT ![p] = start]
Invocations == {<<start, FALSE>> : start \in StartDirs} \cup {<<Root, TRUE>>}
Commands == {"create", "switch", "list", "clear"}

CliNext ==
    \/ \E name \in CliCreateArgs, i \in Invocations :
            StartCreate(1, name, i[1], i[2])
    \/ \E name \in CliSwitchArgs, i \in Invocations :
            StartSwitch(1, name, i[1], i[2])
    \/ \E start \in StartDirs : StartList(1, start)
    \/ \E start \in StartDirs : StartClear(1, start)
    \/ \E command \in Commands, with_tail \in BOOLEAN :
            NotInRepo(1, command, IF command = "switch" THEN Some(Str_a) ELSE None,
                      OutsideDir, with_tail /\ command \in {"create", "switch"})
    \/ \E command \in Commands : LegacyNotInRepo(1, command, OutsideDir)
    \/ \E command \in Commands, start \in DeletedDirs :
            NotInRepoDeleted(1, command,
                             IF command = "switch" THEN Some(Str_a) ELSE None, start)
    \/ Steps(1)
    \/ \E status \in ChildStatus : ChildFails(1, status)
    \/ pc[1] = "idle" /\ \E w \in registered : EnvLock(w)
    \/ pc[1] = "idle" /\ EnvWriteFile(Str_a)

CliSpec == Init /\ [][CliNext]_vars

---------------------------------------------------------------------------
(* The argument list of a tool-derived command on its own: every tool      *)
(* name, every configuration with at most one entry, every list of extra   *)
(* arguments of at most MaxArgs words.                                     *)

MaxArgs == 2

ToolNames == {"codex", "claude", "aider"}
ArgWords == {"--model", "-v"}
ArgLists == UNION {[1..k -> ArgWords] : k \in 0..MaxArgs}

\* struct CommandConfig and its Default
CommandConfig(args, replace_defaults) ==
    [args |-> args, replace_defaults |-> replace_defaults]
NoCommand == [some |-> FALSE, val |-> CommandConfig(<<>>, FALSE)]

\* struct Config: the `commands` map; Default (and a missing or unreadable
\* file, app.rs line 39) is the empty map
EmptyCommands == [name \in ToolNames |-> NoCommand]
Configs ==
    {EmptyCommands} \cup
    {[EmptyCommands EXCEPT ![name] = Some(CommandConfig(args, replace_defaults))] :
        name \in ToolNames, args \in ArgLists, replace_defaults \in BOOLEAN}

\* builtin_command_args
builtin_command_args(name) ==
    IF name = "codex" THEN <<"--dangerously-bypass-approvals-and-sandbox">>
    ELSE IF name = "claude" THEN <<"--dangerously-skip-permissions">>
    ELSE <<>>

\* an argument list with the configured arguments ahead of the built-in
\* ones, the variant of command_args that C20 excludes
command_args_config_first(commands, name, extra) ==
    LET command == commands[name]
        replace_defaults == command.some /\ command.val.replace_defaults
    IN  (IF command.some THEN command.val.args ELSE <<>>)
        \o (IF ~replace_defaults THEN builtin_command_args(name) ELSE <<>>)
        \o extra

\* an argument list that keeps the built-in arguments whatever the entry
\* says, the variant of command_args that C21 excludes
command_args_keep_builtin(commands, name, extra) ==
    LET command == commands[name]
    IN  builtin_command_args(name)
        \o (IF command.some THEN command.val.args ELSE <<>>)
        \o extra

\* Config::command_args
command_args(commands, name, extra) ==
    LET command == commands[name]
        replace_defaults == command.some /\ command.val.replace_defaults
    IN  (IF ~replace_defaults THEN builtin_command_args(name) ELSE <<>>)
        \o (IF command.some THEN command.val.args ELSE <<>>)
        \o extra

Unset == [done |-> FALSE, args |-> <<>>]

InitCommandArgs ==
    /\ InitFs
    /\ InitProcs
    /\ fnIn \in [commands : Configs, name : ToolNames, extra : ArgLists]
    /\ fnOut = Unset
    /\ home = NoConfig

\* run_tool, lines 42-45 and 49-52: the CommandSpec of the tool is built
ApplyCommandArgs ==
    /\ ~fnOut.done
    /\ fnOut' = [done |-> TRUE,
                 args |-> command_args(fnIn.commands, fnIn.name, fnIn.extra)]
    /\ UNCHANGED <<fsVars, procVars, fnIn, home>>

SpecCommandArgs == InitCommandArgs /\ [][ApplyCommandArgs]_vars

---------------------------------------------------------------------------
(* RetrySpec: one user creates and clears while backend calls fail for     *)
(* reasons of their own: contention on git's locks, or anything else.      *)

\* the steps of create and of clear
MutatorSteps(p) ==
    \/ CreateMkdir(p)
    \/ CreateResolve(p)
    \/ CreateCheck(p)
    \/ CreateLock(p)
    \/ CreateAdd(p)
    \/ Enter(p)
    \/ Child(p)
    \/ ClearChdir(p)
    \/ ClearLock(p)
    \/ ClearList(p)
    \/ ClearLoop(p)
    \/ ClearRemoveDirAll(p)
    \/ ClearPrune(p)
    \/ ClearCleanup(p)

RetryNext ==
    \/ \E name \in CliCreateArgs : StartCreate(1, name, Root, FALSE)
    \/ StartClear(1, Root)
    \/ MutatorSteps(1)
    \/ \E stderr \in Diagnostics, took \in CallMillis : AddFails(1, stderr, took)
    \/ \E worktree \in registered, stderr \in Diagnostics, took \in CallMillis :
            RemoveFails(1, worktree, stderr, took)
    \/ ClearListFails(1)
    \/ ClearRemoveDirAllFails(1)
    \/ \E call \in AcquireCalls : AcquireFails(1, call)

RetrySpec == Init /\ [][RetryNext]_vars

\* the loop of a driver, and the loop of clear around it
DriverStep(p) ==
    \/ CreateAdd(p)
    \/ ClearLoop(p)
    \/ ClearRemoveDirAll(p)
    \/ \E stderr \in Diagnostics, took \in CallMillis : AddFails(p, stderr, took)
    \/ \E worktree \in registered, stderr \in Diagnostics, took \in CallMillis :
            RemoveFails(p, worktree, stderr, took)

\* each backend call returns and the process goes on
RetryLiveSpec == RetrySpec /\ WF_vars(DriverStep(1))

---------------------------------------------------------------------------
(* ConfigSpec: `init` run again and again, from every state of the user's  *)
(* home, while the user edits or deletes the configuration file by hand.   *)

\* default_config_contents()
DefaultContents == "default"
\* what the user may have written: some settings, or an empty file
CustomContents == {"custom = true", "[commands.codex]", ""}

InitializedMessage ==
    <<"initialized config at ~/.worktree/config.toml">>

HomeStates ==
    {Home(env, dir, file) :
        env \in BOOLEAN, dir \in {"absent", "dir", "file"},
        file \in {"absent", DefaultContents} \cup CustomContents}

\* the per-invocation state of a process that runs `init`
InitInvocation(p) ==
    /\ pc[p] = "idle"
    /\ ops < MaxOps
    /\ ops' = ops + 1
    /\ op' = [op EXCEPT ![p] = "init"]
    /\ arg' = [arg EXCEPT ![p] = None]
    /\ tail' = [tail EXCEPT ![p] = FALSE]
    /\ dest' = [dest EXCEPT ![p] = NoPath]
    /\ todo' = [todo EXCEPT ![p] = {}]
    /\ launches' = [launches EXCEPT ![p] = <<>>]
    /\ repo' = [repo EXCEPT ![p] = NoRepo]
    /\ drv' = [drv EXCEPT ![p] = FreshDriver]
    /\ UNCHANGED <<fsVars, lockHolder, envs, genLog, fnIn, fnOut>>

\* an init that writes the default content whatever is there, the variant
\* of ConfigInit that C22 excludes
ConfigInit_overwrite(p) ==
    /\ InitInvocation(p)
    /\ IF ~home.env
       THEN /\ Exit(p, "err_no_home", 1)
            /\ UNCHANGED <<home, out>>
       ELSE IF home.dir = "file"
       THEN /\ Exit(p, "err_io", 1)
            /\ UNCHANGED <<home, out>>
       ELSE /\ home' = Home(TRUE, "dir", DefaultContents)
            /\ out' = [out EXCEPT ![p] = <<InitializedMessage>>]
            /\ Exit(p, "ok", 0)

\* app::run, Commands::Init, and Config::init_default: config_path() needs
\* HOME; create_dir_all(parent) fails when ~/.worktree is a regular file;
\* the default content is written if !path.exists(); the path is printed
ConfigInit(p) ==
    /\ InitInvocation(p)
    /\ IF ~home.env
       THEN /\ Exit(p, "err_no_home", 1)
            /\ UNCHANGED <<home, out>>
       ELSE IF home.dir = "file"
       THEN /\ Exit(p, "err_io", 1)
            /\ UNCHANGED <<home, out>>
       ELSE /\ home' = Home(TRUE, "dir",
                            IF home.file = "absent" THEN DefaultContents
                            ELSE home.file)
            /\ out' = [out EXCEPT ![p] = <<InitializedMessage>>]
            /\ Exit(p, "ok", 0)

\* the user writes the configuration file by hand
EnvWriteConfig(contents) ==
    /\ envs < MaxEnv
    /\ home.dir # "file"
    /\ home.file # contents
    /\ home' = Home(home.env, "dir", contents)
    /\ envs' = envs + 1
    /\ UNCHANGED <<fsVars, lockHolder, pc, op, arg, repo, tail, dest, todo,
                   result, out, ops, genLog, cwd, launches, code, prev, origin,
                   drv, fnIn, fnOut>>

\* the user deletes the configuration file by hand
EnvRemoveConfig ==
    /\ envs < MaxEnv
    /\ home.file # "absent"
    /\ home' = Home(home.env, home.dir, "absent")
    /\ envs' = envs + 1
    /\ UNCHANGED <<fsVars, lockHolder, pc, op, arg, repo, tail, dest, todo,
                   result, out, ops, genLog, cwd, launches, code, prev, origin,
                   drv, fnIn, fnOut>>

InitConfig ==
    /\ InitFs
    /\ InitProcs
    /\ fnIn = <<>>
    /\ fnOut = "unset"
    /\ home \in {h \in HomeStates : h.file # "absent" => h.dir = "dir"}

ConfigNext ==
    \/ ConfigInit(1)
    \/ \E contents \in CustomContents : EnvWriteConfig(contents)
    \/ EnvRemoveConfig

ConfigSpec == InitConfig /\ [][ConfigNext]_vars

---------------------------------------------------------------------------
(* The claims.                                                             *)

Range(seq) == {seq[i] : i \in 1..Len(seq)}

\* the positions of create after the name is chosen
AfterResolve == {"c_check", "c_lock", "c_add", "enter", "child"}

\* the positions inside the block that holds the RepoLock guard
LockedPhase == {"c_add", "x_list", "x_loop", "x_prune", "x_cleanup"}

\* C1: two concurrent `create` invocations without a name never both select
\* the same generated name (and so both succeed with distinct worktrees).
C1_DistinctDefaultNames ==
    \A p, q \in Procs :
        (/\ p # q
         /\ op[p] = "create" /\ ~arg[p].some /\ pc[p] \in AfterResolve
         /\ op[q] = "create" /\ ~arg[q].some /\ pc[q] \in AfterResolve)
            => dest[p] # dest[q]

\* C2: a process is inside its mutating phase (backend add, backend remove,
\* prune, deletion of the managed directory) only while it holds the
\* RepoLock, so at most one process is inside it.
C2_MutualExclusion ==
    /\ \A p \in Procs : pc[p] \in LockedPhase => lockHolder = p
    /\ \A p, q \in Procs :
        (pc[p] \in LockedPhase /\ pc[q] \in LockedPhase) => p = q

\* C2 witness: one process in its mutating phase while another waits for the lock
C2_Witness ==
    \E p, q \in Procs :
        /\ p # q
        /\ pc[p] \in LockedPhase
        /\ lockHolder = p
        /\ pc[q] \in {"c_lock", "x_lock"}

\* a registered worktree whose path is not under the managed directory
Foreign(w) == ~starts_with(w, WorktreesDir)

\* a step of a running `clear` of the one user of SeqSpec
InClear == op[1] = "clear" /\ pc[1] # "idle"

\* C3 as claimed: clear leaves the directory and the registration of every
\* registered worktree outside the managed directory as they were.
C3_ForeignUntouched_Original ==
    [][\A w \in registered :
        (InClear /\ Foreign(w))
            => /\ w \in registered'
               /\ (w \in dirs) = (w \in dirs')]_vars

\* C3 amended: clear leaves the directory of every registered worktree
\* outside the managed directory as it was, and its registration too when
\* that directory exists (the prune step drops a registration whose
\* directory is missing).
C3_ForeignUntouched ==
    [][\A w \in registered :
        (InClear /\ Foreign(w))
            => /\ (w \in dirs) = (w \in dirs')
               /\ (w \in dirs) => (w \in registered')]_vars

\* C3 witness: a clear has finished its removals with managed worktrees
\* gone and the foreign worktree, directory and registration, in place
C3_Witness ==
    /\ op[1] = "clear"
    /\ pc[1] = "child"
    /\ ops > 1
    /\ ForeignPath \in registered
    /\ ForeignPath \in dirs

\* the state a successful clear leaves, before its shell is launched
ClearSucceeded == op[1] = "clear" /\ pc[1] = "child"
NoManagedLeft ==
    /\ ~exists(WorktreesDir)
    /\ \A w \in registered : Foreign(w)

\* C4 as claimed: after a successful clear the managed directory does not
\* exist, no registration under it remains and, when no foreign worktree is
\* registered, none of the three bookkeeping directories exists.
C4_ClearRemovesAll_Original ==
    ClearSucceeded =>
        /\ NoManagedLeft
        /\ registered = {} =>
            /\ ~exists(GitWorktreesDir)
            /\ ~exists(RefsWorktreeDir)
            /\ ~exists(LogsWorktreeDir)

\* C4 amended: ... none of the three bookkeeping directories exists, except
\* a refs/worktree or logs/refs/worktree that still holds an entry.
C4_ClearRemovesAll ==
    ClearSucceeded =>
        /\ NoManagedLeft
        /\ registered = {} =>
            /\ ~exists(GitWorktreesDir)
            /\ ~exists(RefsWorktreeDir) \/ read_dir(RefsWorktreeDir) # {}
            /\ ~exists(LogsWorktreeDir) \/ read_dir(LogsWorktreeDir) # {}

\* C4 witness: a successful clear after two creations, nothing left
C4_Witness ==
    /\ ClearSucceeded
    /\ ops = 3
    /\ Len(genLog) = 2
    /\ registered = {}
    /\ ~exists(RefsWorktreeDir)

\* the target of a create with a valid name
Target(p) == join(WorktreesDir, arg[p].val)
BeforeLock(p) ==
    /\ op[p] = "create"
    /\ arg[p].some
    /\ validate_worktree_name(arg[p].val)
    /\ pc[p] \in {"c_mkdir", "c_resolve", "c_check"}

\* C5: a create whose target already exists changes neither the file system
\* nor the registrations, never reaches the lock or the backend, and ends
\* with "already exists" when the target is a directory and with "not a
\* directory" when it is not.
C5_CreateExclusive ==
    [][(BeforeLock(1) /\ exists(Target(1)))
        => /\ UNCHANGED <<fsVars, lockHolder>>
           /\ pc'[1] \in {"c_resolve", "c_check", "idle"}
           /\ pc'[1] = "idle" =>
                result'[1] = IF is_dir(Target(1)) THEN "err_already_exists"
                             ELSE "err_not_a_directory"]_vars

\* C5 witness: the second create of the same name has failed
C5_Witness ==
    /\ op[1] = "create"
    /\ pc[1] = "idle"
    /\ result[1] = "err_already_exists"
    /\ dest[1] \in registered

\* C6: validate fails for every string that contains '/' and for ".", ".."
\* and the empty string, and succeeds for every nonempty string of
\* alphanumerics and hyphens.
HasSlash(s) == \E i \in 1..Len(s) : s[i] = "/"
IsAlnumOrHyphen(c) == c = "-" \/ IsDigit(c) \/ CharCode[c] >= 97
C6_NameValidation ==
    fnOut \in {"Ok", "Err"} =>
        /\ (HasSlash(fnIn) \/ fnIn \in {<<>>, <<".">>, <<".", ".">>})
            => fnOut = "Err"
        /\ (fnIn # <<>> /\ \A i \in 1..Len(fnIn) : IsAlnumOrHyphen(fnIn[i]))
            => fnOut = "Ok"

\* C7: a create or switch whose name is rejected as invalid changes neither
\* the file system (the managed directory included) nor the registrations,
\* and ends with the invalid-name error.
InvalidName(p) ==
    /\ op[p] \in {"create", "switch"}
    /\ arg[p].some
    /\ ~validate_worktree_name(arg[p].val)
    /\ pc[p] # "idle"
C7_ValidationFirst ==
    [][InvalidName(1)
        => /\ UNCHANGED <<fsVars, lockHolder>>
           /\ pc'[1] = "idle" => result'[1] = "err_invalid_name"]_vars

\* the integer N of a name `N-wt` or `N-worktree`, as a natural number of
\* any size
NumeralOf(prefix) ==
    LET body == IF Len(prefix) > 0 /\ prefix[1] = "+" THEN Tail(prefix) ELSE prefix
    IN  IF body # <<>> /\ \A i \in 1..Len(body) : IsDigit(body[i])
        THEN Some(StripZeros([i \in 1..Len(body) |-> DigitVal(body[i])]))
        ELSE None
IntegerOf(name) ==
    LET wt == strip_suffix(name, SuffixWt)
        legacy == strip_suffix(name, SuffixWorktree)
    IN  IF wt.some THEN NumeralOf(wt.val)
        ELSE IF legacy.some THEN NumeralOf(legacy.val)
        ELSE None
PresentIntegers ==
    {IntegerOf(Last(e)).val :
        e \in {d \in read_dir(WorktreesDir) : d \in dirs /\ IntegerOf(Last(d)).some}}
MaxOf(values) == CHOOSE m \in values : \A v \in values : ~UsizeLess(m, v)

\* C8: nextName returns `{max+1}-wt`, max the largest integer N with a
\* subdirectory named N-wt or N-worktree, and `0-wt` when there is none.
C8_MaxBasedNaming ==
    fnOut # "unset" =>
        fnOut = IF PresentIntegers = {} THEN IndexedName(<<0>>, SuffixWt)
                ELSE IndexedName(NatSucc(MaxOf(PresentIntegers)), SuffixWt)

\* C9 as claimed: the index of each generated name is strictly greater than
\* the index of every name generated earlier.
C9_Monotonic_Original ==
    \A i, j \in 1..Len(genLog) : i < j => UsizeLess(genLog[i], genLog[j])

\* the indices of the indexed subdirectories of the managed directory
PresentIndices ==
    {worktree_index(Last(e)).val :
        e \in {d \in read_dir(WorktreesDir) :
                d \in dirs /\ worktree_index(Last(d)).some}}

\* C9 amended: the index of each generated name is strictly greater than the
\* index of every indexed subdirectory present when it is generated, hence
\* than that of every earlier generated name that still exists; only at the
\* largest representable index does the generated index wrap to 0.
C9_Monotonic ==
    [][Len(genLog') > Len(genLog) =>
        IF USIZE_MAX \in PresentIndices
        THEN Last(genLog') = <<0>>
        ELSE \A v \in PresentIndices : UsizeLess(v, Last(genLog'))]_vars

\* C9 witness: a name generated above a gap left by a manual deletion
C9_Witness ==
    /\ genLog = <<<<0>>, <<1>>, <<2>>>>
    /\ envs > 0
    /\ WorktreesDir \o <<IndexedName(<<0>>, SuffixWt)>> \notin dirs
    /\ pc[1] = "c_check"

\* C10: list prints exactly the names of the subdirectories of the managed
\* directory, in strictly increasing lexicographic order, nothing when the
\* directory is absent; it succeeds and changes nothing.
Subdirectories == {Last(e) : e \in {d \in read_dir(WorktreesDir) : d \in dirs}}
C10_List ==
    [][(op[1] = "list" /\ pc[1] # "idle")
        => /\ UNCHANGED <<fsVars, lockHolder>>
           /\ pc'[1] = "idle" =>
                /\ result'[1] = "ok"
                /\ Range(out'[1]) = Subdirectories
                /\ \A i, j \in 1..Len(out'[1]) :
                      i < j => StrLess(out'[1][i], out'[1][j])]_vars

\* C10 witness: b was created before a, a file lies beside them, and list
\* has printed a, then b
C10_Witness ==
    /\ op[1] = "list"
    /\ pc[1] = "idle"
    /\ out[1] = <<Str_a, Str_b>>

---------------------------------------------------------------------------
\* C11: switch(name) with a valid name enters managedWorktreesDir/name when
\* that path is an existing directory, and only then; when the path is
\* absent or a regular file the invocation fails with "does not exist",
\* has launched nothing, and has changed neither the filesystem nor the
\* registrations.
SwitchDecides == op[1] = "switch" /\ pc[1] = "s_check"
SwitchEnters == op[1] = "switch" /\ pc[1] = "enter"

C11_Switch ==
    [][/\ SwitchDecides =>
            /\ UNCHANGED fsVars
            /\ dest[1] = Target(1)
            /\ IF Target(1) \in dirs
               THEN pc'[1] = "enter" /\ dest'[1] = Target(1)
               ELSE /\ pc'[1] = "idle"
                    /\ result'[1] = "err_does_not_exist"
                    /\ code'[1] = 1
                    /\ launches'[1] = <<>>
       /\ SwitchEnters =>
            /\ UNCHANGED fsVars
            /\ cwd'[1] = Target(1)
            /\ launches'[1] = <<Launch(IF tail[1] THEN "command" ELSE "shell",
                                       Target(1))>>
      ]_vars

\* a switch to a name whose path is a regular file has failed
C11_Witness ==
    /\ op[1] = "switch"
    /\ pc[1] = "idle"
    /\ result[1] = "err_does_not_exist"
    /\ Target(1) \in files

---------------------------------------------------------------------------
\* C12: round trip of the path resolution: after a create that entered a
\* worktree, under a name given or generated, a switch with that name,
\* started from any place in the repository, is not refused and enters the
\* very path the create entered.
RoundTrip ==
    /\ prev[1].op = "create"
    /\ op[1] = "switch"
    /\ pc[1] # "idle"
    /\ arg[1] = Some(Last(prev[1].dest))

C12_RoundTrip ==
    [][RoundTrip =>
          /\ pc'[1] = "idle" => result'[1] \in {"ok", "child_failed"}
          /\ pc'[1] = "child" =>
                /\ cwd'[1] = prev[1].dest
                /\ out'[1] = <<display(prev[1].dest)>>
                /\ \A i \in 1..Len(launches'[1]) :
                        launches'[1][i].dir = prev[1].dest
      ]_vars

\* a switch is inside the worktree that a create without a name has made
C12_Witness ==
    /\ RoundTrip
    /\ prev[1].arg = None
    /\ pc[1] = "child"
    /\ cwd[1] = prev[1].dest
    /\ launches[1] # <<>>

---------------------------------------------------------------------------
\* C13: when a command is supplied to create or switch, the one child the
\* invocation launches is that command, with the worktree directory as its
\* working directory, and no shell is launched after it; when the command
\* ends with a non-zero code n, the tool's process exits with exactly n.
WithCommand == op[1] \in {"create", "switch"} /\ tail[1]

C13_ExitPropagation ==
    (WithCommand /\ launches[1] # <<>>) =>
        /\ Len(launches[1]) = 1
        /\ launches[1][1].kind = "command"
        /\ launches[1][1].dir = dest[1]
        /\ Len(dest[1]) = Len(WorktreesDir) + 1
        /\ starts_with(dest[1], WorktreesDir)
        /\ launches[1][1].done =>
                /\ pc[1] = "idle"
                /\ LET status == launches[1][1].status
                   IN  (status.some /\ status.val # 0) => code[1] = status.val

\* the command of a create has ended with 42 and so has the tool
C13_Witness ==
    /\ WithCommand
    /\ op[1] = "create"
    /\ pc[1] = "idle"
    /\ launches[1] # <<>>
    /\ launches[1][1].done
    /\ launches[1][1].status = Some(42)
    /\ code[1] = 42

---------------------------------------------------------------------------
\* C14: an invocation of any lifecycle command from a place outside every
\* repository is a no-op that ends well: the process exits with code 0, no
\* file, directory or registration changes, no lock is taken and nothing
\* is launched.
StartsOutside == ops' # ops /\ repo'[1] = NoRepo /\ origin'[1] = NoPath

C14_OutsideNoOp ==
    [][StartsOutside =>
          /\ pc'[1] = "idle"
          /\ code'[1] = 0
          /\ UNCHANGED <<fsVars, lockHolder>>
          /\ launches'[1] = <<>>
      ]_vars

\* C15: `list` run outside every repository exits successfully and has
\* written nothing to standard output.
C15_ListSilent ==
    [][(StartsOutside /\ op'[1] = "list") =>
          /\ code'[1] = 0
          /\ out'[1] = <<>>
      ]_vars

---------------------------------------------------------------------------
\* C16: lockstep of disk and backend: in every state that interleavings of
\* create, switch, list and clear reach, failed ones included, every
\* directory directly under the managed worktrees directory is registered
\* with the backend at that path; and the step by which a create adds its
\* worktree leaves both the directory and its registration present.
ManagedDirs == {d \in read_dir(WorktreesDir) : d \in dirs}
Lockstep == \A d \in ManagedDirs : d \in registered
CreateAdds(p) == op[p] = "create" /\ pc[p] = "c_add" /\ pc'[p] = "enter"

C16_Lockstep ==
    /\ []Lockstep
    /\ [][\A p \in Procs :
            CreateAdds(p) => dest[p] \in dirs' /\ dest[p] \in registered'
         ]_vars

\* a clear is in its loop with a managed worktree still there, while the
\* other process has an invocation under way
C16_Witness ==
    \E p, q \in Procs :
        /\ p # q
        /\ op[p] = "clear"
        /\ pc[p] = "x_loop"
        /\ pc[q] # "idle"
        /\ ManagedDirs # {}
        /\ todo[p] \subseteq registered

---------------------------------------------------------------------------
\* C17: clear tolerates a partial failure: when the backend fails, other
\* than transiently, to force-remove one managed registration, the loop
\* skips that worktree and the clear goes on, so that the remaining managed
\* registrations are removed and the managed worktrees directory is
\* deleted recursively.
InClearLoop == op[1] = "clear" /\ pc[1] = "x_loop"
ClearRemovalsDone == op[1] = "clear" /\ pc[1] = "x_prune"

C17_ClearTolerates ==
    [][/\ InClearLoop => pc'[1] # "idle"
       /\ ClearRemovalsDone =>
            /\ WorktreesDir \notin dirs
            /\ \A w \in registered : Foreign(w) \/ w \in locked
      ]_vars

---------------------------------------------------------------------------
\* C18: clear changes the working directory of its process to the
\* repository root before it takes the lock or removes anything, so that
\* nothing is removed while the process stands inside a managed worktree;
\* and the shell it launches after the removals has the repository root as
\* its working directory, also when clear was started inside a managed
\* worktree.
ClearRunning == op[1] = "clear" /\ pc[1] # "idle"
ClearPastChdir ==
    /\ ClearRunning
    /\ pc[1] \in {"x_lock", "x_list", "x_loop", "x_prune", "x_cleanup", "child"}

C18_ClearAtRoot ==
    /\ ClearPastChdir =>
            /\ cwd[1] = Root
            /\ ~starts_with(cwd[1], WorktreesDir)
    /\ (ClearRunning /\ lockHolder = 1) => ClearPastChdir
    /\ (op[1] = "clear" /\ launches[1] # <<>>) =>
            /\ Len(launches[1]) = 1
            /\ launches[1][1].kind = "shell"
            /\ launches[1][1].dir = Root

\* a clear started inside a managed worktree has removed that worktree and
\* has its shell running at the root
C18_Witness ==
    /\ op[1] = "clear"
    /\ pc[1] = "child"
    /\ starts_with(origin[1], WorktreesDir)
    /\ origin[1] \notin dirs
    /\ launches[1] = <<Launch("shell", Root)>>

---------------------------------------------------------------------------
\* C19: the repository is resolved alike from every place inside it:
\* started at the primary root, in a subdirectory of it or inside a managed
\* worktree, an invocation works with the same root, the same managed
\* worktrees directory <root>/.worktrees and the same lock file; no
\* `.worktrees` directory ever appears under a subdirectory or under a
\* worktree, and every lock file is the one lock file.
Resolved(p) == pc[p] # "idle" /\ repo[p] # NoRepo

C19_OneRepository ==
    /\ \A p \in Procs :
            Resolved(p) =>
                /\ repo[p].root = Root
                /\ worktrees_dir(p) = WorktreesDir
                /\ lock_path(p) = LockPath
    /\ \A d \in dirs \cup files : Last(d) = <<".worktrees">> => d = WorktreesDir
    /\ \A f \in files : Last(f) = <<"worktree-tool.lock">> => f = LockPath

\* a create started inside a managed worktree has added its worktree next
\* to that one, under the root's .worktrees
C19_Witness ==
    /\ op[1] = "create"
    /\ pc[1] = "child"
    /\ starts_with(origin[1], WorktreesDir)
    /\ dest[1] \in dirs
    /\ dest[1] # origin[1]
    /\ Front(dest[1]) = WorktreesDir
    /\ LockPath \in files

---------------------------------------------------------------------------
\* C20: for a tool whose configuration entry does not set replace_defaults,
\* or that has no entry, the argument list of the derived command is the
\* tool's built-in defaults, then the configured arguments, then the extra
\* arguments of the user, in that order; a tool that is not known has no
\* built-in defaults.
Entry == fnIn.commands[fnIn.name]
KeepsDefaults == ~Entry.some \/ ~Entry.val.replace_defaults
Defaults ==
    CASE fnIn.name = "codex" -> <<"--dangerously-bypass-approvals-and-sandbox">>
      [] fnIn.name = "claude" -> <<"--dangerously-skip-permissions">>
      [] OTHER -> <<>>
Configured == IF Entry.some THEN Entry.val.args ELSE <<>>

C20_CommandArgs ==
    (fnOut.done /\ KeepsDefaults) =>
        fnOut.args = Defaults \o Configured \o fnIn.extra

\* codex with a configured argument list and extra arguments
C20_Witness ==
    /\ fnOut.done
    /\ fnIn.name = "codex"
    /\ Entry.some
    /\ ~Entry.val.replace_defaults
    /\ Entry.val.args = <<"--model">>
    /\ fnIn.extra = <<"-v">>
    /\ fnOut.args = <<"--dangerously-bypass-approvals-and-sandbox", "--model", "-v">>

---------------------------------------------------------------------------
\* C21 as stated: when the entry of the tool sets replace_defaults, the
\* argument list is the configured arguments alone, with none of the
\* built-in defaults and nothing else, for every list of extra arguments.
ReplacesDefaults == Entry.some /\ Entry.val.replace_defaults

C21_ReplaceDefaults_Original ==
    (fnOut.done /\ ReplacesDefaults) => fnOut.args = Configured

\* C21: when the entry of the tool sets replace_defaults, the argument list
\* is the configured arguments followed by the extra arguments of the user:
\* none of the built-in defaults is added.
C21_ReplaceDefaults ==
    (fnOut.done /\ ReplacesDefaults) =>
        /\ fnOut.args = Configured \o fnIn.extra
        /\ \A i \in 1..Len(fnOut.args) :
                fnOut.args[i] \notin Range(Defaults)

\* codex with replace_defaults, one configured argument and one extra one
C21_Witness ==
    /\ fnOut.done
    /\ fnIn.name = "codex"
    /\ ReplacesDefaults
    /\ Entry.val.args = <<"--model">>
    /\ fnIn.extra = <<"-v">>
    /\ fnOut.args = <<"--model", "-v">>

---------------------------------------------------------------------------
\* C22: init never overwrites: a configuration file that exists has the
\* same content after init as before; one that does not exist is created
\* with the default content; so an init that follows an init changes
\* nothing.
InitRuns == ops' # ops /\ op'[1] = "init"

C22_InitNeverOverwrites ==
    [][InitRuns =>
          /\ home.file # "absent" => home'.file = home.file
          /\ (home.file = "absent" /\ code'[1] = 0) =>
                home'.file = DefaultContents
          /\ (op[1] = "init" /\ result[1] = "ok" /\ home.file # "absent") =>
                home' = home
      ]_vars

\* an init has left the content the user wrote
C22_Witness ==
    /\ op[1] = "init"
    /\ result[1] = "ok"
    /\ home.file = "custom = true"
    /\ out[1] = <<InitializedMessage>>

---------------------------------------------------------------------------
\* C23: in the retry driver of add and of remove alike, the sleep before
\* the k-th retry lasts min(30 * 2^(k-1), 500) milliseconds: 30 at first,
\* doubled after each retry, never more than 500.
RECURSIVE Pow2(_)
Pow2(n) == IF n = 0 THEN 1 ELSE 2 * Pow2(n - 1)

\* the attempts and the clock of the driver the next backend call belongs to
AttemptsBefore == IF drv[1].ok THEN 0 ELSE drv[1].attempts
ElapsedBefore == IF drv[1].ok THEN 0 ELSE drv[1].elapsed

DriverRetries ==
    /\ pc[1] \in {"c_add", "x_loop"}
    /\ pc'[1] = pc[1]
    /\ ~drv'[1].ok
    /\ drv'[1].attempts = AttemptsBefore + 1

C23_Backoff ==
    [][DriverRetries =>
          LET k == drv'[1].attempts
              expected == IF 30 * Pow2(k - 1) < 500 THEN 30 * Pow2(k - 1) ELSE 500
          IN  /\ drv'[1].slept = expected
              /\ drv'[1].slept >= 30
              /\ drv'[1].slept <= 500
              /\ drv'[1].elapsed >= ElapsedBefore + drv'[1].slept
      ]_vars

\* the driver of remove has retried often enough to sleep the longest sleep
C23_Witness ==
    /\ pc[1] = "x_loop"
    /\ drv[1].attempts = 7
    /\ drv[1].slept = 500

---------------------------------------------------------------------------
\* C24: the retry driver never retries a failure that it does not take for
\* transient lock contention: when the diagnostic text of a failed backend
\* call matches none of the contention markers, or matches but 3 seconds
\* have passed since the first attempt, the driver returns at once, without
\* a sleep and without another backend call, a hard error that carries the
\* diagnostic text.
FailedCall ==
    /\ pc[1] \in {"c_add", "x_loop"}
    /\ ~drv'[1].ok
    /\ drv'[1].attempts = AttemptsBefore + 1
ContentionMarked(stderr) ==
    \/ stderr \cap {"index.lock", "another git process seems to be running",
                    "could not write new index file"} # {}
    \/ {"unable to create", "lock", ".git"} \subseteq stderr
ReadElapsed == drv'[1].elapsed - drv'[1].slept

C24_NoRetryOfHardFailure ==
    [][(FailedCall /\ (~ContentionMarked(drv'[1].stderr) \/ ReadElapsed >= 3000)) =>
          /\ pc'[1] = "idle"
          /\ result'[1] = "err_backend"
          /\ code'[1] = 1
          /\ drv'[1].slept = 0
          /\ drv'[1].elapsed >= ElapsedBefore
          /\ AttemptsBefore = 0 => drv'[1].attempts = 1
          /\ launches'[1] = <<>>
      ]_vars

\* the first call of `git worktree add` has failed with a text that holds
\* "unable to create" and ".git" but not "lock", and create has ended
C24_Witness ==
    /\ op[1] = "create"
    /\ pc[1] = "idle"
    /\ result[1] = "err_backend"
    /\ drv[1].attempts = 1
    /\ drv[1].slept = 0
    /\ drv[1].stderr = {"unable to create", ".git"}

---------------------------------------------------------------------------
\* C25: the retry driver always terminates: a retry is started only while
\* less than 3 seconds have passed since the first attempt, so that, every
\* backend call returning and the clock advancing, the attempts of one
\* driver are bounded (eleven at most, the sleeps alone taking the clock
\* past the deadline) and a process inside a driver leaves it, with success
\* or with a failure, even when every attempt meets contention.
C25_DriverTerminates ==
    /\ [](drv[1].attempts <= 11)
    /\ [](InDriver(1) => drv[1].elapsed - drv[1].slept < 3000)
    /\ (pc[1] = "c_add") ~> (pc[1] # "c_add")
    /\ (pc[1] = "x_loop") ~> (pc[1] # "x_loop")

\* contention on every one of eleven attempts, and the driver has given up
C25_Witness ==
    /\ pc[1] = "idle"
    /\ result[1] = "err_backend"
    /\ drv[1].attempts = 11
    /\ drv[1].elapsed >= 3000
    /\ ContentionMarked(drv[1].stderr)

---------------------------------------------------------------------------
\* C26: transient lock contention is invisible to the caller: a retry of
\* the driver changes nothing but the driver's own locals (no output, no
\* result, no change of the file system, of the registrations or of the
\* repository lock), and when an attempt succeeds within the deadline the
\* driver returns success and the enclosing create or clear goes on exactly
\* as after a first attempt that succeeded: create with the worktree added
\* and registered, the lock released and the worktree about to be entered,
\* clear with the worktree removed and the loop going on.
SucceedsAfterRetries ==
    /\ InDriver(1)
    /\ drv'[1].ok
    /\ drv'[1].attempts = drv[1].attempts + 1

C26_ContentionInvisible ==
    [][/\ DriverRetries =>
            /\ UNCHANGED <<fsVars, lockHolder, op, arg, dest, todo, result, out,
                           cwd, launches, code>>
            /\ lockHolder = 1
       /\ (SucceedsAfterRetries /\ pc[1] = "c_add") =>
            /\ pc'[1] = "enter"
            /\ dirs \cup {dest[1]} \subseteq dirs'
            /\ registered' = registered \cup {dest[1]}
            /\ lockHolder' = 0
            /\ UNCHANGED <<files, locked, op, arg, dest, result, out, cwd,
                           launches, code>>
       /\ (SucceedsAfterRetries /\ pc[1] = "x_loop") =>
            /\ pc'[1] = "x_loop"
            /\ drv'[1].target = drv[1].target
            /\ registered' = registered \ {drv[1].target}
            /\ todo'[1] = todo[1] \ {drv[1].target}
            /\ lockHolder' = 1
            /\ UNCHANGED <<locked, op, arg, result, out, cwd, launches, code>>
      ]_vars

\* `git worktree add` met contention twice and then succeeded, and the
\* child runs in the new worktree with nothing printed but its path
C26_Witness ==
    /\ op[1] = "create"
    /\ pc[1] = "child"
    /\ drv[1].ok
    /\ drv[1].attempts = 3
    /\ ContentionMarked(drv[1].stderr)
    /\ out[1] = <<display(dest[1])>>
    /\ dest[1] \in registered

---------------------------------------------------------------------------
\* C27: the repository lock is released on every exit path of the locked
\* phase: a process that is outside the locked phase of create (the add
\* driver) and of clear (listing, removals, deletion, prune, cleanup) does
\* not hold the lock, whether the phase ended in success, in a backend
\* failure after retries, or in the error of any step inside it; the step
\* that leaves the phase is the one that gives the lock up.
C27_LockReleased ==
    /\ [](\A p \in Procs : pc[p] \notin LockedPhase => lockHolder # p)
    /\ [][\A p \in Procs :
            (pc[p] \in LockedPhase /\ pc'[p] \notin LockedPhase) =>
                (lockHolder = p /\ lockHolder' = 0)]_vars

\* clear has given up on a removal after retries, and the lock is free
C27_Witness ==
    /\ op[1] = "clear"
    /\ pc[1] = "idle"
    /\ result[1] = "err_backend"
    /\ drv[1].attempts >= 2
    /\ lockHolder = 0

---------------------------------------------------------------------------
\* C28: the lock is held for the mutating phase only: a process whose
\* launched child (the configured command or the shell) is running, or that
\* is about to launch it, does not hold the repository lock, and it holds
\* the lock nowhere outside the block of create and of clear; so another
\* create or clear acquires the lock and completes while the shell of an
\* earlier invocation is still open.
ChildRunning(p) ==
    /\ pc[p] = "child"
    /\ launches[p] # <<>>
    /\ ~Last(launches[p]).done

C28_LockNotHeldByChild ==
    /\ [](\A p \in Procs : (ChildRunning(p) \/ pc[p] = "enter") => lockHolder # p)
    /\ [](\A p \in Procs : lockHolder = p => pc[p] \in LockedPhase)
    /\ [][\A p, q \in Procs :
            (ChildRunning(p) /\ pc[q] \in {"c_lock", "x_lock"}
                /\ pc'[q] \in {"c_add", "x_list"}) =>
                (lockHolder = 0 /\ lockHolder' = q /\ ChildRunning(p)')]_vars

\* the shell of a create is still open in its worktree, and a clear of the
\* other process, run meanwhile, has removed that worktree and opened its
\* own shell
C28_Witness ==
    /\ op[1] = "create"
    /\ ChildRunning(1)
    /\ Last(launches[1]).dir = dest[1]
    /\ dest[1] \notin registered
    /\ op[2] = "clear"
    /\ ChildRunning(2)
    /\ lockHolder = 0

---------------------------------------------------------------------------
\* C29: switch and list are lock-free and read-only: no step of either
\* takes, waits for or releases the repository lock, and none changes the
\* directories, the files or the backend's registrations; so a switch or a
\* list that is scheduled completes (list ends, switch launches its child
\* or ends with an error) even when another process holds the lock and
\* never gives it up.
Reads(p) == op'[p] \in {"switch", "list"} /\ pc'[p] # pc[p]
Reading(p) == op[p] \in {"switch", "list"} /\ pc[p] \notin {"idle", "child"}

C29_ReadersLockFree ==
    /\ [][\A p \in Procs : Reads(p) => UNCHANGED <<fsVars, lockHolder>>]_vars
    /\ [](\A p \in Procs : op[p] \in {"switch", "list"} => lockHolder # p)
    /\ (Reading(1) /\ lockHolder = 2) ~> (pc[1] \in {"idle", "child"})
    /\ Reading(1) ~> (pc[1] \in {"idle", "child"})

\* list has found the managed directory and is about to read it while the
\* other process, in the loop of clear, holds the lock
C29_Witness ==
    /\ op[1] = "list"
    /\ pc[1] = "l_read"
    /\ lockHolder = 2
    /\ pc[2] = "x_loop"

---------------------------------------------------------------------------
\* C30: a failure to acquire the repository lock is a hard error and the
\* operation never goes on un-synchronized: when opening the lock file or
\* taking the exclusive lock fails, create makes no backend add, clear makes
\* no backend remove, deletes no directory and prunes nothing, no shell or
\* command is launched, and the operation ends with an error; and a process
\* is inside the locked phase only while it holds the lock.
AcquireFailed == pc[1] \in {"c_lock", "x_lock"} /\ pc'[1] = "idle"

C30_AcquireFailureIsHard ==
    /\ [](\A p \in Procs : pc[p] \in LockedPhase => lockHolder = p)
    /\ [][\A p \in Procs :
            (pc[p] \in {"c_lock", "x_lock"} /\ pc'[p] \in LockedPhase) =>
                (lockHolder = 0 /\ lockHolder' = p)]_vars
    /\ [][AcquireFailed =>
            /\ result'[1] \notin {"ok", "running", "none"}
            /\ code'[1] = 1
            /\ launches'[1] = <<>>
            /\ UNCHANGED <<dirs, registered, locked, lockHolder, out>>
            /\ files \subseteq files'
            /\ files' \subseteq files \cup {LockPath}]_vars

\* clear could not take the lock of a repository that has a managed
\* worktree: it has ended with the error, the worktree is as it was and no
\* shell was launched
C30_Witness ==
    /\ op[1] = "clear"
    /\ pc[1] = "idle"
    /\ result[1] = "err_lock"
    /\ code[1] = 1
    /\ launches[1] = <<>>
    /\ ManagedDirs # {}
    /\ ManagedDirs \subseteq registered
    /\ lockHolder = 0

---------------------------------------------------------------------------
\* C31: lock acquisition has no timeout on the side of the tool: a create
\* or a clear that waits for the repository lock stays where it is for as
\* long as another process holds the lock, neither giving up nor going on
\* without it; and when every holder goes on to the end of its locked
\* phase, every waiting create or clear acquires the lock and ends its own
\* locked phase.
Waiting(p) == pc[p] \in {"c_lock", "x_lock"}

C31_AcquireBlocks ==
    /\ [][\A p \in Procs :
            (Waiting(p) /\ lockHolder # 0) =>
                (pc'[p] = pc[p] /\ result'[p] = "running" /\ lockHolder' # p)]_vars
    /\ \A p \in Procs : Waiting(p) ~> (lockHolder = p)
    /\ \A p \in Procs : (lockHolder = p) ~> (pc[p] \notin LockedPhase /\ lockHolder # p)

\* create waits for the lock that the other process holds in the loop of
\* clear
C31_Witness ==
    /\ op[1] = "create"
    /\ pc[1] = "c_lock"
    /\ result[1] = "running"
    /\ lockHolder = 2
    /\ pc[2] = "x_loop"

---------------------------------------------------------------------------
\* C32: the prune step of clear is best-effort: whether `git worktree
\* prune` succeeds, exits with a non-zero status or cannot be spawned,
\* clear goes on, still holding the lock and still running, to the cleanup
\* of the bookkeeping directories and from there to the launch of the shell
\* at the root, and it ends as it ends when prune succeeds: with the exit
\* status of that shell.
C32_PruneBestEffort ==
    /\ [][pc[1] = "x_prune" =>
            /\ pc'[1] = "x_cleanup"
            /\ result'[1] = "running"
            /\ lockHolder' = 1
            /\ UNCHANGED <<out, launches, code, files>>]_vars
    /\ [][pc[1] = "x_cleanup" =>
            /\ pc'[1] = "child"
            /\ result'[1] = "running"
            /\ launches'[1] = <<[kind |-> "shell", dir |-> Root, done |-> FALSE,
                                 status |-> [some |-> FALSE, val |-> 0]]>>]_vars
    /\ []((op[1] = "clear" /\ pc[1] = "idle") => (result[1] = "ok" /\ code[1] = 0))

\* the shell of clear runs at the root although prune has failed: a
\* registration whose directory is gone, which prune would have dropped,
\* is still there
C32_Witness ==
    /\ op[1] = "clear"
    /\ pc[1] = "child"
    /\ launches[1] # <<>>
    /\ \E w \in registered : w \notin dirs /\ w \notin locked

---------------------------------------------------------------------------
\* C33: clear removes each bookkeeping directory of the backend
\* (`worktrees`, `refs/worktree`, `logs/refs/worktree` under the metadata
\* directory) only if it is empty at that moment: an empty one is removed,
\* one that still has an entry, such as the registration of a foreign
\* worktree or a per-worktree ref, stays with its contents unchanged, and
\* an absent one is no error: the cleanup goes on to the launch of the
\* shell in every case.
BookkeepingDirs == {GitWorktreesDir, RefsWorktreeDir, LogsWorktreeDir}
Below(path, paths) ==
    {e \in paths : Len(e) > Len(path) /\ SubSeq(e, 1, Len(path)) = path}
Holds(path) ==
    \/ Below(path, dirs \cup files) # {}
    \/ path = GitWorktreesDir /\ registered # {}
CleansUp == pc[1] = "x_cleanup" /\ pc'[1] # "x_cleanup"

C33_RemoveOnlyIfEmpty ==
    [][CleansUp =>
        /\ pc'[1] = "child"
        /\ result'[1] = "running"
        /\ UNCHANGED <<files, registered, locked>>
        /\ dirs' \subseteq dirs
        /\ dirs \ dirs' \subseteq BookkeepingDirs
        /\ \A b \in BookkeepingDirs :
            /\ (b \in dirs /\ ~Holds(b)) => b \notin dirs'
            /\ Holds(b) => (b \in dirs' /\ Below(b, dirs') = Below(b, dirs))
      ]_vars

\* clear has launched its shell: `worktrees`, which holds the registration
\* of a foreign worktree, and `refs/worktree`, which holds a ref, are still
\* there with what they held
C33_Witness ==
    /\ op[1] = "clear"
    /\ pc[1] = "child"
    /\ ForeignPath \in registered
    /\ GitWorktreesDir \in dirs
    /\ RefsWorktreeDir \in dirs
    /\ Below(RefsWorktreeDir, files) # {}

---------------------------------------------------------------------------
\* C34: when no command is supplied, the one child that create and switch
\* launch is an interactive shell whose working directory is the worktree
\* directory, and the one child that clear launches is a shell at the root;
\* the exit code of the shell is the exit code of the tool: n when the
\* shell exits with a non-zero n, 0 when it exits with 0, and 1 when the
\* shell ended without an exit code.
WithoutCommand == op[1] \in {"create", "switch", "clear"} /\ ~tail[1]

C34_ShellExitPropagation ==
    (WithoutCommand /\ launches[1] # <<>>) =>
        /\ Len(launches[1]) = 1
        /\ launches[1][1].kind = "shell"
        /\ launches[1][1].dir = (IF op[1] = "clear" THEN Root ELSE dest[1])
        /\ op[1] # "clear" =>
                /\ Len(dest[1]) = Len(WorktreesDir) + 1
                /\ SubSeq(dest[1], 1, Len(WorktreesDir)) = WorktreesDir
        /\ ~launches[1][1].done => (pc[1] = "child" /\ code[1] = -1)
        /\ launches[1][1].done =>
                /\ pc[1] = "idle"
                /\ LET status == launches[1][1].status
                   IN  code[1] = (IF status.some THEN status.val ELSE 1)

\* the shell of a switch was ended by a signal and the tool has exited
\* with 1
C34_Witness ==
    /\ WithoutCommand
    /\ op[1] = "switch"
    /\ pc[1] = "idle"
    /\ launches[1] # <<>>
    /\ launches[1][1].kind = "shell"
    /\ launches[1][1].done
    /\ ~launches[1][1].status.some
    /\ code[1] = 1

---------------------------------------------------------------------------
\* C35 as stated, for a repository that never had managed worktrees, nor a
\* managed directory: the first invocation of the tool there being a clear,
\* that clear succeeds and changes no directory, no registration and no
\* file (the lock file, which every clear makes, set aside).
FirstEver ==
    /\ ops = 1
    /\ op[1] = "clear"
    /\ pc[1] # "idle"
    /\ WorktreesDir \notin dirs \cup files

Stale == {w \in registered : w \notin dirs /\ w \notin locked}

\* the repository as a clear leaves it
Settled ==
    /\ WorktreesDir \notin dirs \cup files
    /\ \A w \in registered : SubSeq(w, 1, Len(WorktreesDir)) # WorktreesDir
    /\ LockPath \in files
    /\ Stale = {}
    /\ \A b \in BookkeepingDirs : b \in dirs => Holds(b)

---------------------------------------------------------------------------
\* C36: the tool tolerates a working directory that was deleted under the
\* process: an invocation started in a directory that no longer exists,
\* whose nearest existing ancestor lies in a repository, resolves that
\* repository from the ancestor and goes on with its command; it neither
\* fails nor ends as an invocation outside every repository.
RECURSIVE nearest_existing(_)
nearest_existing(candidate) ==
    IF candidate = <<>> \/ candidate \in dirs THEN candidate
    ELSE nearest_existing(SubSeq(candidate, 1, Len(candidate) - 1))

StartsInDeleted ==
    /\ ops' # ops
    /\ origin'[1] # NoPath
    /\ origin'[1] \notin dirs
    /\ try_discover(nearest_existing(origin'[1])).some

C36_DeletedCwdRecovers ==
    [][StartsInDeleted =>
          /\ repo'[1] = try_discover(nearest_existing(origin'[1])).val
          /\ result'[1] = "running"
          /\ pc'[1] # "idle"
      ]_vars

---------------------------------------------------------------------------
\* C37: two concurrent creates with the same explicit valid name never both
\* succeed: in every interleaving at most one of them registers the
\* worktree and enters it, the other ends with an error and exit code 1,
\* and once one has succeeded there is one directory and one registration
\* for the name.
Added(p) ==
    \/ pc[p] \in {"enter", "child"}
    \/ pc[p] = "idle" /\ result[p] \in {"ok", "child_failed"}
SameName(p, q) ==
    /\ p # q
    /\ op[p] = "create" /\ op[q] = "create"
    /\ arg[p].some /\ arg[q] = arg[p]

C37_SameNameCreate ==
    /\ [](\A p, q \in Procs : SameName(p, q) => ~(Added(p) /\ Added(q)))
    /\ [](\A p, q \in Procs :
            (SameName(p, q) /\ Added(p) /\ pc[q] = "idle") =>
                /\ result[q] \in {"err_already_exists", "err_backend"}
                /\ code[q] = 1
                /\ launches[q] = <<>>)
    /\ [](\A p \in Procs :
            (op[p] = "create" /\ Added(p)) =>
                (dest[p] \in dirs /\ dest[p] \in registered))
    /\ [][\A p, q \in Procs :
            (SameName(p, q) /\ Added(p) /\ pc[q] # "idle" /\ pc'[q] # pc[q]) =>
                (UNCHANGED registered /\ dirs' = dirs)]_vars

\* both creates had found the name free; process 1 has added the worktree
\* and runs its shell, process 2 came second to the lock and its add failed
C37_Witness ==
    /\ SameName(1, 2)
    /\ pc[1] = "child"
    /\ pc[2] = "idle"
    /\ result[2] = "err_backend"
    /\ dest[1] = dest[2]
    /\ dest[1] \in registered

---------------------------------------------------------------------------
(* The generated name and the existence check of create_worktree.          *)

\* C38: a `create` without a name never fails its existence check: the name
\* produced by next_worktree_name is not the name of any existing entry,
\* directory or not, of the managed worktrees directory, whatever that
\* directory holds.
C38_GeneratedNameIsFree ==
    (fnOut # "unset" /\ fnOut # "panic") => ~exists(join(WorktreesDir, fnOut))

---------------------------------------------------------------------------
(* A failed listing in clear.                                              *)

\* the step in which the listing of clear fails: the only way from the
\* listing to the end of the invocation
ListingFails == pc[1] = "x_list" /\ pc'[1] = "idle"

\* C39: when the backend's listing fails during clear, the clear ends with an
\* error before it removes anything: no registration is removed, nothing of
\* the managed worktrees directory is deleted, nothing is pruned, no shell is
\* launched, and the lock is released.
C39_ListingFailureAbortsClear ==
    [][ListingFails =>
        /\ op[1] = "clear"
        /\ result'[1] = "err_backend" /\ code'[1] = 1
        /\ registered' = registered /\ locked' = locked
        /\ dirs' = dirs /\ files' = files
        /\ drv'[1].attempts = 0
        /\ launches' = launches /\ launches[1] = <<>>
        /\ lockHolder = 1 /\ lockHolder' = 0]_vars

\* a clear has ended on a failed listing: its managed worktree is still
\* registered and on disk, no removal was attempted, the lock is free
C39_Witness ==
    /\ op[1] = "clear" /\ pc[1] = "idle" /\ result[1] = "err_backend"
    /\ drv[1].attempts = 0
    /\ \E worktree \in registered :
          is_managed(1, worktree) /\ worktree \in dirs
    /\ launches[1] = <<>>
    /\ lockHolder = 0

====
